---- MODULE Spec2Model ----
(***************************************************************************)
(* A model of the expand/collapse extension: the extension API             *)
(* (createExtensionAPI), the edge consolidator (repairEdges), the level    *)
(* classifier (getNodesByGroupLevels) and the node mover (moveNodes).      *)
(*                                                                         *)
(* The graph store `cy` is one record; the operators below are functions   *)
(* from graphs to graphs, so that one handler of the JavaScript source     *)
(* (which runs to its first await without interruption) is one action.     *)
(*                                                                         *)
(* expandCollapseUtilities.js is not among the sources: the definitions    *)
(* that stand for it (collapseNode, expandNode, collapseGivenNodes, ...)   *)
(* follow section 4.1 of the specification and are marked as such.         *)
(***************************************************************************)
EXTENDS Integers, Sequences, FiniteSets, TLC

VARIABLES
  cy,          \* the user-visible graph (nodes, parents, classes, snapshots, edges)
  options,     \* scratch "options": here only whether groupLayoutBy.name is "dagre"
  supportCys,  \* number of support (shadow) cytoscape instances not yet destroyed
  pc,          \* position of the API call in flight
  outer,       \* the API method in flight: its name and arguments
  cur,         \* the collapse/expand call in flight: kind, given nodes, filtered nodes
  todo,        \* collapse/expand calls the method in flight has still to issue
  before,      \* the graph when the API method in flight was called
  rt,          \* the collapse that an expand may undo: stage, node, graph before it
  raised,      \* TRUE when the last API call threw
  inp,         \* input of the function under check; for the cluster methods
               \* the argument clusterColorClassesPriorities
  out,         \* its result
  calls        \* number of cluster methods called so far

vars == <<cy, options, supportCys, pc, outer, cur, todo, before, rt, raised, inp, out,
          calls>>

-----------------------------------------------------------------------------
(* Bounds of the model *)

\* largest node selection handed to one API call
MaxSel == 2
\* support instances that may be left alive before the model stops issuing calls
MaxSupportCys == 1
\* cluster methods (updateCluster, collapseCluster, expandCluster) called in a run
MaxClusterCalls == 2

-----------------------------------------------------------------------------
(* The graph store *)

NodeIds == {"A", "B", "C", "x", "y"}
\* cy.nodes() iterates in this order
NodeOrder == <<"A", "B", "C", "x", "y">>
NoParent == "undefined"
CollapsedNodeClass == "cy-expand-collapse-collapsed-node"

NoSnapshot == [has |-> FALSE, nodes |-> {}, edges |-> {}, remapped |-> {}]

\* the nodes of S in iteration order
SeqOf(S) == SelectSeq(NodeOrder, LAMBDA n : n \in S)

Children(g, n) == {m \in g.nodes : g.parent[m] = n}

RECURSIVE Descendants(_, _)
Descendants(g, n) ==
  LET ch == Children(g, n)
  IN  ch \cup UNION {Descendants(g, m) : m \in ch}

DescendantsOf(g, S) == UNION {Descendants(g, n) : n \in S}

RECURSIVE Ancestors(_, _)
Ancestors(g, n) ==
  IF g.parent[n] = NoParent THEN {}
  ELSE {g.parent[n]} \cup Ancestors(g, g.parent[n])

isParent(g, n) == Children(g, n) # {}

\* `${source}_${label}_${target}`
EdgeId(source, label, target) == source \o "_" \o label \o "_" \o target

-----------------------------------------------------------------------------
(* Utility functions of the API *)

\* the class only the nodes of a support instance carry
isExpandableByCollapsedClass(g, n) == "collapsed" \in g.classes[n]

isExpandable(g, n) == CollapsedNodeClass \in g.classes[n]

isCollapsibleNoParentCheck(g, n) == ~isExpandable(g, n)

isCollapsible(g, n) == ~isExpandable(g, n) /\ isParent(g, n)

collapsibleNodes(g, S) == {n \in S : isCollapsible(g, n)}

expandableNodes(g, S) == {n \in S : isExpandable(g, n)}

hasGroupNodes(g) == \E n \in g.nodes : g.type[n] = "group"

getTopMostNodesAll(g, S) == S

getTopMostNodes(g, S) == {n \in S : Ancestors(g, n) \cap S = {}}

-----------------------------------------------------------------------------
(* The collapse engine (expandCollapseUtilities), after section 4.1 of the  *)
(* specification                                                            *)

\* the edges of es whose id is not yet in use, one per id
FreshById(es, used) ==
  LET ids == {e.id : e \in es} \ {e.id : e \in used}
  IN  {CHOOSE e \in es : e.id = i : i \in ids}

\* Removes the live descendants of c into a snapshot owned by c and remaps
\* every edge between a descendant and a node outside the subtree to c, under
\* the id derived from (source, label, target); a remap whose id is already
\* present is skipped.
collapseNode(g, c) ==
  LET D        == Descendants(g, c)
      gone     == {e \in g.edges : e.source \in D \/ e.target \in D}
      boundary == {e \in gone : /\ ~(e.source \in D /\ e.target \in D)
                                /\ e.source # c /\ e.target # c}
      Remap(e) == LET s == IF e.source \in D THEN c ELSE e.source
                      t == IF e.target \in D THEN c ELSE e.target
                  IN  [e EXCEPT !.id = EdgeId(s, e.label, t),
                                !.source = s, !.target = t]
      kept     == g.edges \ gone
      added    == FreshById({Remap(e) : e \in boundary}, kept)
  IN  [g EXCEPT
         !.nodes = @ \ D,
         !.edges = kept \cup added,
         !.classes[c] = @ \cup {CollapsedNodeClass},
         !.collapsedChildren[c] =
            [has |-> TRUE, nodes |-> D, edges |-> gone,
             remapped |-> {e.id : e \in added}]]

\* Reinstates the snapshot of c verbatim, drops the edges the collapse
\* synthesized and clears the snapshot. An edge is restored only when both
\* its endpoints are in the graph.
expandNode(g, c) ==
  LET snap  == g.collapsedChildren[c]
      nodes == g.nodes \cup snap.nodes
      kept  == {e \in g.edges : e.id \notin snap.remapped}
      back  == {e \in snap.edges : e.source \in nodes /\ e.target \in nodes}
  IN  IF ~snap.has THEN g
      ELSE [g EXCEPT
              !.nodes = nodes,
              !.edges = kept \cup FreshById(back, kept),
              !.classes[c] = @ \ {CollapsedNodeClass},
              !.collapsedChildren[c] = NoSnapshot]

\* collapseBottomUp: the marked nodes below root, children before parents
RECURSIVE collapseBottomUp(_, _, _)
RECURSIVE collapseBottomUpEach(_, _, _)
collapseBottomUp(g, root, marked) ==
  collapseBottomUpEach(g, SeqOf(Children(g, root)), marked)
    \o (IF root \in marked /\ isParent(g, root) THEN <<root>> ELSE <<>>)
collapseBottomUpEach(g, roots, marked) ==
  IF roots = <<>> THEN <<>>
  ELSE collapseBottomUp(g, Head(roots), marked)
         \o collapseBottomUpEach(g, Tail(roots), marked)

\* the order in which collapseGivenNodes collapses the given nodes
CollapseOrder(g, eles) ==
  collapseBottomUpEach(g, SeqOf(getTopMostNodes(g, eles)), eles)

RECURSIVE CollapseEach(_, _)
CollapseEach(g, order) ==
  IF order = <<>> THEN g
  ELSE CollapseEach(collapseNode(g, Head(order)), Tail(order))

collapseGivenNodes(g, eles) == CollapseEach(g, CollapseOrder(g, eles))

RECURSIVE ExpandEach(_, _)
ExpandEach(g, order) ==
  IF order = <<>> THEN g
  ELSE ExpandEach(expandNode(g, Head(order)), Tail(order))

expandGivenNodes(g, eles) == ExpandEach(g, SeqOf(eles))

\* expandAllTopDown: expand root, then whatever is collapsed among the
\* children it has afterwards
RECURSIVE expandAllTopDown(_, _)
RECURSIVE expandAllTopDownEach(_, _)
expandAllTopDown(g, root) ==
  LET g1 == expandNode(g, root)
  IN  expandAllTopDownEach(g1, SeqOf(Children(g1, root)))
expandAllTopDownEach(g, roots) ==
  IF roots = <<>> THEN g
  ELSE expandAllTopDownEach(expandAllTopDown(g, Head(roots)), Tail(roots))

expandAllNodes(g, eles) ==
  expandAllTopDownEach(g, SeqOf(getTopMostNodes(g, eles)))

-----------------------------------------------------------------------------
(* Cluster bookkeeping of the API *)

\* node.move({ parent: clusterId }) for every given node that is in the graph
MoveInto(g, ids, clusterId) ==
  [g EXCEPT !.parent = [n \in NodeIds |->
                          IF n \in ids \cap g.nodes THEN clusterId ELSE @[n]]]

\* expandCluster, lines 698-707: each given node is looked up in the snapshot
\* of the cluster, restored and moved next to the cluster. The loop throws at
\* the first node the snapshot does not hold; what it did before stays done.
RECURSIVE RestoreOut(_, _, _)
RestoreOut(g, ids, clusterId) ==
  IF ids = <<>> THEN [g |-> g, ok |-> TRUE]
  ELSE LET snap == g.collapsedChildren[clusterId]
           n    == Head(ids)
       IN  IF ~snap.has \/ n \notin snap.nodes THEN [g |-> g, ok |-> FALSE]
           ELSE RestoreOut(
                  [g EXCEPT !.nodes = @ \cup {n},
                            !.parent[n] = g.parent[clusterId]],
                  Tail(ids), clusterId)

\* collapsedChildren.filter(child => child.data("type") === "default").length
defaultNodesCount(g, cluster) ==
  Cardinality({n \in g.collapsedChildren[cluster].nodes : g.type[n] = "default"})

\* updateClusterNodeColor, lines 670-686: the first class of the priority list
\* that a collapsed child of type default carries replaces the classes of the
\* list on the cluster; with no such class (or no list) nothing is touched
updateClusterNodeColor(g, cluster, priorities) ==
  LET defaults == {n \in g.collapsedChildren[cluster].nodes : g.type[n] = "default"}
      carried  == UNION {g.classes[n] : n \in defaults}
      hits     == {i \in DOMAIN priorities : priorities[i] \in carried}
      first    == CHOOSE i \in hits : \A j \in hits : i <= j
  IN  IF hits = {} THEN g
      ELSE [g EXCEPT !.classes[cluster] =
                       (@ \ {priorities[i] : i \in DOMAIN priorities})
                         \cup {priorities[first]}]

\* updateCluster that never shows a cluster again
updateClusterEndKeepHidden(g, cluster, priorities) ==
  IF defaultNodesCount(g, cluster) = 0 \/ g.display[cluster] = "none"
  THEN [g EXCEPT !.display[cluster] = "none"]
  ELSE updateClusterNodeColor(
         [g EXCEPT !.childCount[cluster] = defaultNodesCount(g, cluster)],
         cluster, priorities)

\* updateCluster after its expand and collapse, lines 657-690: a count of zero
\* hides the cluster and returns; otherwise the cluster is shown, the count is
\* stored and the colour class is updated
updateClusterEnd(g, cluster, priorities) ==
  IF defaultNodesCount(g, cluster) = 0
  THEN [g EXCEPT !.display[cluster] = "none"]
  ELSE updateClusterNodeColor(
         [g EXCEPT !.display[cluster] = "element",
                   !.childCount[cluster] = defaultNodesCount(g, cluster)],
         cluster, priorities)

-----------------------------------------------------------------------------
(* collapse, expand and expandRecursively of the API *)

\* no graph: what stands for an instance that does not exist
NoGraph ==
  [nodes |-> {}, parent |-> [n \in NodeIds |-> NoParent],
   type |-> [n \in NodeIds |-> "default"],
   classes |-> [n \in NodeIds |-> {}],
   collapsedChildren |-> [n \in NodeIds |-> NoSnapshot],
   edges |-> {},
   display |-> [n \in NodeIds |-> "element"],
   childCount |-> [n \in NodeIds |-> 0],
   position |-> [n \in NodeIds |-> [x |-> 0, y |-> 0]]]

NoCall == [op |-> "none", given |-> {}, cluster |-> "none"]
NoCur  == [kind |-> "none", given |-> {}, eles |-> {}, order |-> <<>>,
           supportCy |-> NoGraph]

\* the nodes the call hands to the engine
Filtered(kind, g, given) ==
  CASE kind = "collapse" -> collapsibleNodes(g, given)
    [] kind = "expand"   -> expandableNodes(g, given)
    [] OTHER             -> given

\* what the engine does with them
Engine(kind, g, eles) ==
  CASE kind = "collapse" -> collapseGivenNodes(g, eles)
    [] kind = "expand"   -> expandGivenNodes(g, eles)
    [] OTHER             -> expandAllNodes(g, eles)

\* the nodes the engine collapses, in order (empty for an expand)
EngineOrder(kind, g, eles) ==
  IF kind = "collapse" THEN CollapseOrder(g, eles) ELSE <<>>

\* hasGroupNodes && tempOptions?.groupLayoutBy?.name !== "dagre"
UsesSupport(g) == hasGroupNodes(g) /\ ~options.dagre

\* supportCollapse / supportExpand run the pass and destroy the instance only
\* if (supportNodes.length); supportExpandRecursively always does
SupportRuns(kind, eles) == kind = "expandRecursively" \/ eles # {}

\* supportCollapse / supportExpand / supportExpandRecursively: the classes
\* toggled on the nodes of the support instance (lines 166-172, 194-203,
\* 217-223)
supportToggled(kind, g, eles) ==
  LET on(c)  == (c \ {"expanded"}) \cup {CollapsedNodeClass, "collapsed"}
      off(c) == (c \ {CollapsedNodeClass, "collapsed"}) \cup {"expanded"}
  IN  [g EXCEPT !.classes =
         [n \in NodeIds |->
            CASE kind = "collapse" /\ n \in eles -> on(g.classes[n])
              [] kind = "expand" /\ n \in eles   -> off(g.classes[n])
              [] /\ kind = "expandRecursively"
                 /\ n \in g.nodes /\ g.type[n] = "group" -> off(g.classes[n])
              [] OTHER -> g.classes[n]]]

\* the engine of the support instance: simpleCollapseGivenNodes,
\* simpleExpandGivenNodes, simpleExpandAllNodes(undefined)
supportEngine(kind, s, eles) ==
  CASE kind = "collapse" -> collapseGivenNodes(s, eles)
    [] kind = "expand"   -> expandGivenNodes(s, eles)
    [] OTHER             -> expandAllNodes(s, s.nodes)

\* supportEndOperation, lines 132-136: the expanded groups are marked
supportExpanded(s) ==
  [s EXCEPT !.classes =
     [n \in NodeIds |->
        IF n \in s.nodes /\ s.type[n] = "group" /\ isParent(s, n)
        THEN s.classes[n] \cup {"support-expanded"} ELSE s.classes[n]]]

\* a pass that toggles the classes on the nodes of the graph itself
supportStartOnCy(kind, g, eles) ==
  [cy |-> supportToggled(kind, g, eles),
   supportCy |-> IF SupportRuns(kind, eles)
                 THEN supportExpanded(
                        supportEngine(kind, supportToggled(kind, g, eles), eles))
                 ELSE g]

\* getSupportCy and the pass up to the layouts it awaits: the graph and the
\* support instance, a copy of the graph's elements, afterwards (the
\* consolidation of the instance's edges, repairEdges, is examined on its own
\* further down)
supportStart(kind, g, eles) ==
  [cy |-> g,
   supportCy |-> IF SupportRuns(kind, eles)
                 THEN supportExpanded(
                        supportEngine(kind, supportToggled(kind, g, eles), eles))
                 ELSE g]

\* what a layout of the support instance may do to a position in this model
PassShifts == {0, 1}

\* supportCy.nodes().map(node => ({ nodeId, position })), lines 149-152,
\* after layouts that shifted the nodes by d
harvest(s, d) ==
  [k \in 1..Len(SeqOf(s.nodes)) |->
     [nodeId   |-> SeqOf(s.nodes)[k],
      position |-> [x |-> s.position[SeqOf(s.nodes)[k]].x + d,
                    y |-> s.position[SeqOf(s.nodes)[k]].y + d]]]

\* A call of api.collapse / api.expand / api.expandRecursively up to its first
\* await: the filter, then either the support instance (getSupportCy) or,
\* without group nodes or with dagre, the engine right away.
Begin(kind, given, g) ==
  LET eles == Filtered(kind, g, given)
      r    == supportStart(kind, g, eles)
  IN  IF UsesSupport(g)
      THEN /\ cy' = r.cy
           /\ supportCys' = supportCys + 1
           /\ pc' = IF SupportRuns(kind, eles) THEN "support" ELSE "engine"
           /\ cur' = [kind |-> kind, given |-> given, eles |-> eles,
                      order |-> <<>>, supportCy |-> r.supportCy]
      ELSE /\ cy' = Engine(kind, g, eles)
           /\ supportCys' = supportCys
           /\ pc' = "next"
           /\ cur' = [kind |-> kind, given |-> given, eles |-> eles,
                      order |-> EngineOrder(kind, g, eles),
                      supportCy |-> NoGraph]

\* supportEndOperation after the layouts: the positions are harvested into
\* the scratch and the instance is destroyed, lines 149-158
SupportEnd ==
  /\ pc = "support"
  /\ supportCys' = supportCys - 1
  /\ pc' = "engine"
  /\ \E d \in PassShifts :
       options' = [options EXCEPT !.positions = harvest(cur.supportCy, d)]
  /\ cur' = [cur EXCEPT !.supportCy = NoGraph]
  /\ UNCHANGED <<cy, outer, todo, before, rt, raised, inp, out, calls>>

\* await expandCollapseUtilities.collapseGivenNodes / expandGivenNodes /
\* expandAllNodes
EngineStep ==
  /\ pc = "engine"
  /\ cy' = Engine(cur.kind, cy, cur.eles)
  /\ cur' = [cur EXCEPT !.order = EngineOrder(cur.kind, cy, cur.eles)]
  /\ pc' = "next"
  /\ UNCHANGED <<options, supportCys, outer, todo, before, rt, raised, inp, out,
               calls>>

\* the awaited call has settled: the method in flight issues its next call
NextCall ==
  /\ pc = "next"
  /\ todo # <<>>
  /\ Begin(Head(todo).kind, Head(todo).given, cy)
  /\ todo' = Tail(todo)
  /\ UNCHANGED <<options, outer, before, rt, raised, inp, out,
               calls>>

IsClusterOp(op) == op \in {"updateCluster", "collapseCluster", "expandCluster"}

\* ... or, with none left, finishes
Finish ==
  /\ pc = "next"
  /\ todo = <<>>
  /\ cy' = IF IsClusterOp(outer.op) THEN updateClusterEnd(cy, outer.cluster, inp)
           ELSE cy
  /\ pc' = "done"
  /\ UNCHANGED <<options, supportCys, outer, cur, todo, before, rt, raised, inp, out,
               calls>>

-----------------------------------------------------------------------------
(* The API methods, each up to its first await *)

NoRt == [stage |-> "none", op |-> "none", node |-> "none", graph |-> NoGraph]

\* the selections a caller hands to the API
Selections(g) == {S \in SUBSET g.nodes : Cardinality(S) <= MaxSel}

\* Bookkeeping for the round trips: a collapse of a single collapsible node c
\* is remembered with the graph it started from, and the matching expand of c
\* that directly follows it is marked.
RtNext(op, S) ==
  IF /\ op \in {"collapse", "collapseRecursively"}
     /\ \E c \in S : S = {c} /\ isCollapsible(cy, c)
  THEN [stage |-> "collapse", op |-> op, node |-> CHOOSE c \in S : TRUE,
        graph |-> cy]
  ELSE IF /\ rt.stage = "collapse"
          /\ S = {rt.node}
          /\ \/ op = "expand" /\ rt.op = "collapse"
             \/ op = "expandRecursively" /\ rt.op = "collapseRecursively"
       THEN [rt EXCEPT !.stage = "expand"]
       ELSE NoRt

CanCall == pc = "idle" /\ supportCys < MaxSupportCys

Called(op, given, cluster) ==
  /\ outer' = [op |-> op, given |-> given, cluster |-> cluster]
  /\ before' = cy
  /\ rt' = RtNext(op, given)
  /\ raised' = FALSE
  /\ calls' = IF IsClusterOp(op) THEN calls + 1 ELSE calls
  /\ UNCHANGED <<options, inp, out>>

\* api.collapse, lines 275-297
Collapse ==
  /\ CanCall
  /\ \E S \in Selections(cy) :
       /\ Begin("collapse", S, cy)
       /\ Called("collapse", S, "none")
  /\ todo' = <<>>

\* api.collapseRecursively without the descendants
collapseRecursivelyElesOnly(g, S) == collapsibleNodes(g, S)

\* api.collapseRecursively, lines 300-311: what it hands to api.collapse
collapseRecursivelyEles(g, S) ==
  LET eles == collapsibleNodes(g, S)
  IN  eles \cup DescendantsOf(g, eles)

CollapseRecursively ==
  /\ CanCall
  /\ \E S \in Selections(cy) :
       /\ Begin("collapse", collapseRecursivelyEles(cy, S), cy)
       /\ Called("collapseRecursively", S, "none")
  /\ todo' = <<>>

\* api.collapseAll, lines 365-376
CollapseAll ==
  /\ CanCall
  /\ Begin("collapse",
           collapseRecursivelyEles(cy, collapsibleNodes(cy, cy.nodes)), cy)
  /\ Called("collapseAll", {}, "none")
  /\ todo' = <<>>

\* api.expand, lines 314-336
Expand ==
  /\ CanCall
  /\ \E S \in Selections(cy) :
       /\ Begin("expand", S, cy)
       /\ Called("expand", S, "none")
  /\ todo' = <<>>

\* api.expandRecursively, lines 339-360
ExpandRecursively ==
  /\ CanCall
  /\ \E S \in Selections(cy) :
       /\ Begin("expandRecursively", S, cy)
       /\ Called("expandRecursively", S, "none")
  /\ todo' = <<>>

\* api.expandAll, lines 379-392
ExpandAll ==
  /\ CanCall
  /\ Begin("expandRecursively", expandableNodes(cy, cy.nodes), cy)
  /\ Called("expandAll", {}, "none")
  /\ todo' = <<>>

Clusters(g) == {n \in g.nodes : g.type[n] = "cluster"}
Leaves(g) == {n \in NodeIds : g.type[n] = "default"}

\* api.updateCluster, lines 646-656: expand the cluster, then collapse it
UpdateCluster ==
  /\ CanCall
  /\ calls < MaxClusterCalls
  /\ \E k \in Clusters(cy) :
       /\ Begin("expand", {k}, cy)
       /\ Called("updateCluster", {}, k)
  /\ todo' = <<[kind |-> "collapse", given |-> {outer'.cluster}]>>

\* api.collapseCluster, lines 712-726
CollapseCluster ==
  /\ CanCall
  /\ calls < MaxClusterCalls
  /\ \E k \in Clusters(cy) :
       \E ids \in Selections(cy) :
         /\ ids # {} /\ ids \subseteq Leaves(cy)
         /\ Begin("expand", {k}, MoveInto(cy, ids, k))
         /\ Called("collapseCluster", ids, k)
  /\ todo' = <<[kind |-> "collapse", given |-> {outer'.cluster}]>>

\* api.expandCluster, lines 692-710
ExpandCluster ==
  /\ CanCall
  /\ calls < MaxClusterCalls
  /\ \E k \in Clusters(cy) :
       \E ids \in {S \in SUBSET Leaves(cy) : S # {} /\ Cardinality(S) <= MaxSel} :
         LET r == RestoreOut(cy, SeqOf(ids), k)
         IN  /\ r.ok
             /\ Begin("expand", {k}, r.g)
             /\ Called("expandCluster", ids, k)
  /\ todo' = <<[kind |-> "collapse", given |-> {outer'.cluster}]>>

\* api.expandCluster when a given node is not in the snapshot of the cluster:
\* collapsedChildren.find (or targetNode.restore) throws a TypeError
ExpandClusterThrows ==
  /\ CanCall
  /\ calls < MaxClusterCalls
  /\ \E k \in Clusters(cy) :
       \E ids \in {S \in SUBSET Leaves(cy) : S # {} /\ Cardinality(S) <= MaxSel} :
         LET r == RestoreOut(cy, SeqOf(ids), k)
         IN  /\ ~r.ok
             /\ cy' = r.g
             /\ outer' = [op |-> "expandCluster", given |-> ids, cluster |-> k]
  /\ before' = cy
  /\ rt' = NoRt
  /\ raised' = TRUE
  /\ pc' = "done"
  /\ cur' = NoCur
  /\ todo' = <<>>
  /\ calls' = calls + 1
  /\ UNCHANGED <<options, supportCys, inp, out>>

\* the promise of the method settles and its caller goes on
Return ==
  /\ pc = "done"
  /\ pc' = "idle"
  /\ outer' = NoCall
  /\ cur' = NoCur
  /\ before' = cy
  /\ rt' = IF rt.stage = "expand" THEN NoRt ELSE rt
  /\ UNCHANGED <<cy, options, supportCys, todo, raised, inp, out,
               calls>>

-----------------------------------------------------------------------------
(* The graphs the model starts from *)

InitParents ==
  {p \in [NodeIds -> NodeIds \cup {NoParent}] :
     /\ p["A"] = NoParent
     /\ p["B"] \in {NoParent, "A"}
     /\ p["C"] \in {NoParent, "B"}
     /\ p["x"] \in {"B", "C"}
     /\ p["y"] = NoParent}

InitTypes ==
  {t \in [NodeIds -> {"group", "cluster", "default"}] :
     /\ t["A"] \in {"group", "cluster"}
     /\ t["B"] = t["A"]
     /\ t["C"] \in {t["A"], "cluster"}
     /\ t["x"] = "default" /\ t["y"] = "default"}

Edge(id, source, label, target) ==
  [id |-> id, source |-> source, target |-> target, label |-> label,
   classes |-> {}, collapsedEdges |-> {}]

InitEdges ==
  { {Edge("e1", "x", "uses", "y")},
    {Edge("e1", "x", "uses", "y"), Edge("e2", "x", "uses", "y")} }

InitGraphs ==
  {[nodes |-> NodeIds, parent |-> p, type |-> t,
    classes |-> [n \in NodeIds |-> {}],
    collapsedChildren |-> [n \in NodeIds |-> NoSnapshot],
    edges |-> es,
    display |-> [n \in NodeIds |-> "element"],
    childCount |-> [n \in NodeIds |-> 0],
    position |-> [n \in NodeIds |-> [x |-> 0, y |-> 0]]] :
     p \in InitParents, t \in InitTypes, es \in InitEdges}

Init ==
  /\ cy \in InitGraphs
  /\ options \in [dagre : BOOLEAN, positions : {<<>>}]
  /\ supportCys = 0
  /\ pc = "idle"
  /\ outer = NoCall
  /\ cur = NoCur
  /\ todo = <<>>
  /\ before = cy
  /\ rt = NoRt
  /\ raised = FALSE
  /\ inp = 0
  /\ out = 0
  /\ calls = 0

Next ==
  \/ Collapse
  \/ CollapseRecursively
  \/ CollapseAll
  \/ Expand
  \/ ExpandRecursively
  \/ ExpandAll
  \/ SupportEnd
  \/ EngineStep
  \/ Finish
  \/ Return

Spec == Init /\ [][Next]_vars

-----------------------------------------------------------------------------
(* Claims about collapse and expand of nodes, under Spec *)

\* what a user sees of a graph: node ids, parents and classes of the nodes in
\* the graph, and the edges with ids, endpoints, labels and classes
GraphView(g) ==
  [nodes   |-> g.nodes,
   parent  |-> [n \in g.nodes |-> g.parent[n]],
   classes |-> [n \in g.nodes |-> g.classes[n]],
   edges   |-> g.edges]

\* C1: collapse(c) directly followed by expand(c), for a collapsible
\* container c, ends with the node ids, edges (ids and endpoints), parent
\* relation and classes the graph had before the collapse, and c holds no
\* collapsedChildren snapshot.
C1_CollapseExpandRoundTrip ==
  (pc = "done" /\ rt.stage = "expand" /\ rt.op = "collapse")
    => /\ GraphView(cy) = GraphView(rt.graph)
       /\ ~cy.collapsedChildren[rt.node].has

\* a round trip of a container that had an edge from inside to outside, so
\* that the collapse remapped an edge, and that held a nested container
C1_Witness ==
  /\ pc = "done" /\ rt.stage = "expand" /\ rt.op = "collapse"
  /\ \E e \in rt.graph.edges :
       /\ e.source \in Descendants(rt.graph, rt.node)
       /\ e.target \notin Descendants(rt.graph, rt.node)
  /\ \E m \in Children(rt.graph, rt.node) : isParent(rt.graph, m)

\* the markers of all nodes, in the graph or stored
Markers(g) == {n \in NodeIds : CollapsedNodeClass \in g.classes[n]}

\* C4: collapse given only nodes that are no containers or are collapsed
\* already, and expand given only nodes that are not collapsed, hand the
\* engine an empty node set and leave nodes, edges, parents and collapsed
\* markers as they were, without an error.
C4_NoOpOnIneligibleNodes ==
  (/\ pc = "done"
   /\ \/ /\ outer.op = "collapse"
         /\ \A n \in outer.given :
              Children(before, n) = {} \/ CollapsedNodeClass \in before.classes[n]
      \/ /\ outer.op = "expand"
         /\ \A n \in outer.given : CollapsedNodeClass \notin before.classes[n])
    => /\ cur.eles = {}
       /\ GraphView(cy) = GraphView(before)
       /\ Markers(cy) = Markers(before)
       /\ ~raised

\* a collapse of a collapsed container together with a leaf has returned
C4_Witness ==
  /\ pc = "done" /\ outer.op = "collapse"
  /\ \E n \in outer.given : CollapsedNodeClass \in before.classes[n]
  /\ \E n \in outer.given :
       Children(before, n) = {} /\ CollapsedNodeClass \notin before.classes[n]

\* C6: every support instance a call creates is destroyed before the call
\* returns, also when the filtered node set is empty.
C6_SupportCyDestroyedOnReturn ==
  pc \in {"done", "idle"} => supportCys = 0

\* everything below n: its children in the graph, what its snapshot stores,
\* and everything below those
RECURSIVE AllUnder(_, _)
AllUnder(g, n) ==
  LET own == Children(g, n) \cup g.collapsedChildren[n].nodes
  IN  own \cup UNION {AllUnder(g, m) : m \in own}

ToSet(seq) == {seq[i] : i \in 1..Len(seq)}

\* C10: collapseRecursively collapses the collapsible nodes among the input
\* and its descendants, each after the containers inside it; and
\* collapseRecursively(A) directly followed by expandRecursively(A) ends with
\* everything below A in the graph again, under the parent it had, with no
\* snapshot left over.
C10_RecursiveRoundTrip ==
  /\ (pc = "done" /\ outer.op = "collapseRecursively")
       => LET all == outer.given \cup DescendantsOf(before, outer.given)
          IN  /\ ToSet(cur.order) =
                   {n \in all : /\ Children(before, n) # {}
                                /\ CollapsedNodeClass \notin before.classes[n]}
              /\ \A i, j \in 1..Len(cur.order) :
                   i < j => cur.order[i] \notin Ancestors(before, cur.order[j])
              /\ \A n \in ToSet(cur.order) :
                   /\ CollapsedNodeClass \in cy.classes[n]
                   /\ cy.collapsedChildren[n].has
  /\ (pc = "done" /\ rt.stage = "expand" /\ rt.op = "collapseRecursively")
       => LET U == AllUnder(rt.graph, rt.node)
          IN  /\ Descendants(cy, rt.node) = U
              /\ \A m \in U : cy.parent[m] = rt.graph.parent[m]
              /\ \A m \in U \cup {rt.node} :
                   /\ CollapsedNodeClass \notin cy.classes[m]
                   /\ ~cy.collapsedChildren[m].has

\* the chain A > B > C > x, collapsed recursively at A and expanded again
C10_Witness ==
  /\ pc = "done" /\ rt.stage = "expand" /\ rt.op = "collapseRecursively"
  /\ rt.node = "A"
  /\ rt.graph.parent["B"] = "A" /\ rt.graph.parent["C"] = "B"
  /\ rt.graph.parent["x"] = "C"
  /\ {"B", "C", "x"} \subseteq rt.graph.nodes
  /\ cy.parent["C"] = "B" /\ cy.parent["B"] = "A" /\ {"B", "C"} \subseteq cy.nodes


ExpandedContainers(g) == {n \in g.nodes : isParent(g, n)}

\* the containers a graph shows closed: the nodes that own a snapshot
CollapsedContainers(g) == {n \in g.nodes : g.collapsedChildren[n].has}

\* the graph of the user once the call in flight has completed: the engine
\* call that follows the pass (lines 291-294, 330-333, 353-356)
AfterCall == Engine(cur.kind, cy, cur.eles)

\* C29: whenever collapse, expand or expandRecursively runs a pass on the
\* support instance, the containers that are expanded and the containers that
\* are collapsed in the instance when its positions are harvested are those
\* of the graph after the same call has completed.
C29_ShadowStructureIsFinalStructure ==
  pc = "support"
    => /\ ExpandedContainers(cur.supportCy) = ExpandedContainers(AfterCall)
       /\ CollapsedContainers(cur.supportCy) = CollapsedContainers(AfterCall)

\* the same for the passes of collapse and expand alone
C29_CollapseExpandOnly ==
  (pc = "support" /\ cur.kind # "expandRecursively")
    => /\ ExpandedContainers(cur.supportCy) = ExpandedContainers(AfterCall)
       /\ CollapsedContainers(cur.supportCy) = CollapsedContainers(AfterCall)

-----------------------------------------------------------------------------
(* Collapse and expand of edges *)

\* largest edge selection handed to collapseEdges / expandEdges
MaxEdgeSel == 3

CollapsedEdgeClass == "cy-expand-collapse-collapsed-edge"

\* isOnly1Pair with the key sets compared by their size alone
isOnly1PairBySize(edges) ==
  \A e1 \in edges : \A e2 \in edges :
    Cardinality({e1.source, e1.target}) = Cardinality({e2.source, e2.target})

\* isOnly1Pair, lines 101-122: for every two edges the keys of both, taken
\* together, are as many as the keys of either
isOnly1Pair(edges) ==
  \A e1 \in edges : \A e2 \in edges :
    LET keys1   == {e1.source, e1.target}
        keys2   == {e2.source, e2.target}
        allKeys == keys1 \cup keys2
    IN  ~(\/ Cardinality(allKeys) # Cardinality(keys1)
          \/ Cardinality(allKeys) # Cardinality(keys2))

NoEdgeResult == [edges |-> {}, oldEdges |-> {}]

\* collapseGivenEdges of the engine (specification, section 4.2): one aggregate
\* edge replaces the given edges and stores them; its id is derived from
\* (source, label, target) of one of them
collapseGivenEdges(g, edges) ==
  LET first == CHOOSE e \in edges : TRUE
      agg   == [id |-> EdgeId(first.source, first.label, first.target),
                source |-> first.source, target |-> first.target,
                label |-> first.label,
                classes |-> {CollapsedEdgeClass},
                collapsedEdges |-> edges]
  IN  [g |-> [g EXCEPT !.edges = (@ \ edges) \cup {agg}],
       result |-> [edges |-> {agg}, oldEdges |-> edges]]

\* expandEdge of the engine: an aggregate edge is removed and the edges it
\* stores are back in the graph; any other edge is left alone
expandEdge(g, edge) ==
  IF edge \in g.edges /\ edge.collapsedEdges # {}
  THEN [g |-> [g EXCEPT !.edges = (@ \ {edge}) \cup edge.collapsedEdges],
        result |-> [edges |-> edge.collapsedEdges, oldEdges |-> {edge}]]
  ELSE [g |-> g, result |-> NoEdgeResult]

\* api.collapseEdges that wants three edges
collapseEdgesMin3(g, edges) ==
  IF Cardinality(edges) < 3 THEN [g |-> g, result |-> NoEdgeResult]
  ELSE IF ~isOnly1Pair(edges) THEN [g |-> g, result |-> NoEdgeResult]
  ELSE collapseGivenEdges(g, edges)

\* api.collapseEdges, lines 513-520
collapseEdges(g, edges) ==
  IF Cardinality(edges) < 2 THEN [g |-> g, result |-> NoEdgeResult]
  ELSE IF ~isOnly1Pair(edges) THEN [g |-> g, result |-> NoEdgeResult]
  ELSE collapseGivenEdges(g, edges)

\* api.expandEdges, lines 522-539: edge by edge, the results added up
RECURSIVE expandEdgesEach(_, _, _)
expandEdgesEach(g, edges, result) ==
  IF edges = {} THEN [g |-> g, result |-> result]
  ELSE LET edge == CHOOSE e \in edges : TRUE
           r    == expandEdge(g, edge)
       IN  expandEdgesEach(r.g, edges \ {edge},
             [edges    |-> result.edges \cup r.result.edges,
              oldEdges |-> result.oldEdges \cup r.result.oldEdges])

expandEdges(g, edges) == expandEdgesEach(g, edges, NoEdgeResult)

EdgeSelections(g) == {E \in SUBSET g.edges : Cardinality(E) <= MaxEdgeSel}

NoEdgeRt == [stage |-> "none", given |-> {}, agg |-> {}, graph |-> NoGraph]

CollapseEdges ==
  /\ \E E \in EdgeSelections(cy) :
       LET r == collapseEdges(cy, E)
       IN  /\ cy' = r.g
           /\ out' = r.result
           /\ outer' = [op |-> "collapseEdges", given |-> E, cluster |-> "none"]
           /\ rt' = IF r.result.edges # {}
                    THEN [stage |-> "collapseEdges", given |-> E,
                          agg |-> r.result.edges, graph |-> cy]
                    ELSE NoEdgeRt
  /\ before' = cy
  /\ raised' = FALSE
  /\ UNCHANGED <<options, supportCys, pc, cur, todo, inp, calls>>

ExpandEdges ==
  /\ \E E \in EdgeSelections(cy) :
       LET r == expandEdges(cy, E)
       IN  /\ cy' = r.g
           /\ out' = r.result
           /\ outer' = [op |-> "expandEdges", given |-> E, cluster |-> "none"]
           /\ rt' = IF rt.stage = "collapseEdges" /\ E = rt.agg
                    THEN [rt EXCEPT !.stage = "expandEdges"]
                    ELSE NoEdgeRt
  /\ before' = cy
  /\ raised' = FALSE
  /\ UNCHANGED <<options, supportCys, pc, cur, todo, inp, calls>>

\* nodes a node sequence handed to the ...BetweenNodes methods is drawn from
EdgeNodes == {"x", "y", "A"}
\* longest such node sequence
MaxPairNodes == 3

\* node.connectedEdges()
connectedEdges(g, n) == {e \in g.edges : e.source = n \/ e.target = n}

\* pairwise that pairs each node with the next one only
pairwiseAdjacent(list) ==
  [k \in 1..(IF Len(list) = 0 THEN 0 ELSE Len(list) - 1) |->
     <<list[k], list[k + 1]>>]

\* pairwise, lines 544-552: every node but the last with every later one
RECURSIVE pairwise(_)
pairwise(list) ==
  IF Len(list) <= 1 THEN <<>>
  ELSE [k \in 1..(Len(list) - 1) |-> <<Head(list), list[k + 1]>>]
         \o pairwise(Tail(list))

\* nodesPairs, lines 554-556: the pairs, then every node with itself
nodesPairs(list) ==
  pairwise(list) \o [k \in 1..Len(list) |-> <<list[k], list[k]>>]

\* lines 560-569: the edges of the first node that start or end at the
\* second; for a node with itself the edges that start and end at it
edgesOfPair(g, nodePair) ==
  LET id1 == nodePair[2]
  IN  IF nodePair[1] = id1
      THEN {e \in connectedEdges(g, nodePair[1]) :
              e.source = id1 /\ e.target = id1}
      ELSE {e \in connectedEdges(g, nodePair[1]) :
              e.source = id1 \/ e.target = id1}

\* nodesPairs.forEach, lines 558-579
RECURSIVE collapseEdgesOfPairs(_, _, _)
collapseEdgesOfPairs(g, pairs, result) ==
  IF pairs = <<>> THEN [g |-> g, result |-> result]
  ELSE LET edges == edgesOfPair(g, Head(pairs))
           r     == IF Cardinality(edges) >= 2
                    THEN collapseGivenEdges(g, edges)
                    ELSE [g |-> g, result |-> NoEdgeResult]
       IN  collapseEdgesOfPairs(r.g, Tail(pairs),
             [edges    |-> result.edges \cup r.result.edges,
              oldEdges |-> result.oldEdges \cup r.result.oldEdges])

\* api.collapseEdgesBetweenNodes, lines 541-582
collapseEdgesBetweenNodes(g, nodes) ==
  collapseEdgesOfPairs(g, nodesPairs(nodes), NoEdgeResult)

\* lines 600-614: '.cy-expand-collapse-collapsed-edge[source = "id1"],
\* [target = "id1"]' selects the marked edges that start at the second node
\* together with all edges that end at it; for a node with itself,
\* '[source = "id1"][target = "id1"]' selects the edges that start and end
\* at it
edgesToExpandOfPair(g, nodePair) ==
  LET id1 == nodePair[2]
  IN  IF nodePair[1] = id1
      THEN {e \in connectedEdges(g, nodePair[1]) :
              e.source = id1 /\ e.target = id1}
      ELSE {e \in connectedEdges(g, nodePair[1]) :
              \/ CollapsedEdgeClass \in e.classes /\ e.source = id1
              \/ e.target = id1}

\* edgesToExpand, lines 585-616
edgesToExpandBetween(g, nodes) ==
  LET pairs == nodesPairs(nodes)
  IN  UNION {edgesToExpandOfPair(g, pairs[k]) : k \in 1..Len(pairs)}

\* api.expandEdgesBetweenNodes, lines 584-619
expandEdgesBetweenNodes(g, nodes) ==
  expandEdges(g, edgesToExpandBetween(g, nodes))

\* the sequences of at most MaxPairNodes different nodes
NodeLists ==
  {l \in UNION {[1..k -> EdgeNodes] : k \in 0..MaxPairNodes} :
     \A i \in 1..Len(l) : \A j \in 1..Len(l) : i # j => l[i] # l[j]}

CollapseEdgesBetweenNodes ==
  /\ \E nodes \in NodeLists :
       LET r == collapseEdgesBetweenNodes(cy, nodes)
       IN  /\ cy' = r.g
           /\ out' = r.result
           /\ inp' = nodesPairs(nodes)
           /\ outer' = [op |-> "collapseEdgesBetweenNodes", given |-> nodes,
                        cluster |-> "none"]
  /\ rt' = NoEdgeRt
  /\ before' = cy
  /\ raised' = FALSE
  /\ UNCHANGED <<options, supportCys, pc, cur, todo, calls>>

ExpandEdgesBetweenNodes ==
  /\ \E nodes \in NodeLists :
       LET r == expandEdgesBetweenNodes(cy, nodes)
       IN  /\ cy' = r.g
           /\ out' = r.result
           /\ inp' = edgesToExpandBetween(cy, nodes)
           /\ outer' = [op |-> "expandEdgesBetweenNodes", given |-> nodes,
                        cluster |-> "none"]
  /\ rt' = NoEdgeRt
  /\ before' = cy
  /\ raised' = FALSE
  /\ UNCHANGED <<options, supportCys, pc, cur, todo, calls>>

\* at most three edges per pair of nodes: parallel ones, one against the
\* direction, self-loops, and one between another pair
EdgePool ==
  {Edge("e1", "x", "uses", "y"), Edge("e2", "x", "uses", "y"),
   Edge("e3", "y", "calls", "x"), Edge("e4", "x", "self", "x"),
   Edge("e5", "x", "self", "x"), Edge("e6", "y", "uses", "A")}

InitEdgesSpec ==
  /\ \E es \in SUBSET EdgePool :
       cy = [NoGraph EXCEPT !.nodes = NodeIds, !.edges = es]
  /\ options = [dagre |-> TRUE]
  /\ supportCys = 0
  /\ pc = "idle"
  /\ outer = NoCall
  /\ cur = NoCur
  /\ todo = <<>>
  /\ before = cy
  /\ rt = NoEdgeRt
  /\ raised = FALSE
  /\ inp = <<>>
  /\ out = NoEdgeResult
  /\ calls = 0

NextEdges ==
  \/ CollapseEdges
  \/ ExpandEdges

SpecEdges == InitEdgesSpec /\ [][NextEdges]_vars

NextBetween ==
  \/ CollapseEdgesBetweenNodes
  \/ ExpandEdgesBetweenNodes

SpecBetween == InitEdgesSpec /\ [][NextBetween]_vars

\* the edges of E all join one unordered pair of nodes
SamePair(E) ==
  \E a \in NodeIds : \E b \in NodeIds :
    \A e \in E : {e.source, e.target} = {a, b}

\* C2: collapseEdges of at least two edges that all join the same unordered
\* pair of nodes replaces them in the graph by exactly one aggregate edge, and
\* expandEdges of that aggregate edge removes it and brings back exactly the
\* collapsed edges, under their ids.
C2_CollapseExpandEdgesRoundTrip ==
  /\ (outer.op = "collapseEdges" /\ Cardinality(outer.given) >= 2
        /\ SamePair(outer.given))
       => /\ Cardinality(out.edges) = 1
          /\ out.edges \cap before.edges = {}
          /\ cy.edges = (before.edges \ outer.given) \cup out.edges
          /\ \A a \in out.edges : CollapsedEdgeClass \in a.classes
  /\ (outer.op = "expandEdges" /\ rt.stage = "expandEdges")
       => /\ cy.edges = rt.graph.edges
          /\ rt.agg \cap cy.edges = {}
          /\ rt.given \subseteq cy.edges
          /\ {e.id : e \in cy.edges} = {e.id : e \in rt.graph.edges}

\* two parallel edges and one against their direction were collapsed into one
\* aggregate edge, and that edge has been expanded again
C2_Witness ==
  /\ outer.op = "expandEdges" /\ rt.stage = "expandEdges"
  /\ Cardinality(rt.given) = 3
  /\ \E e1 \in rt.given : \E e2 \in rt.given :
       e1.source = e2.target /\ e1.source # e1.target
  /\ rt.given \subseteq cy.edges

\* C3: collapseEdges collapses if and only if it is given at least two edges
\* and {source, target} is the same set for all of them; otherwise it returns
\* empty edges and oldEdges, raises nothing and leaves the graph as it was.
C3_CollapseEdgesGuard ==
  outer.op = "collapseEdges"
    => LET same == \A e1 \in outer.given : \A e2 \in outer.given :
                     {e1.source, e1.target} = {e2.source, e2.target}
           ok   == Cardinality(outer.given) >= 2 /\ same
       IN  /\ ok <=> out.edges # {}
           /\ ok => cy # before
           /\ ~ok => /\ out = NoEdgeResult
                     /\ cy = before
                     /\ ~raised

\* collapseEdges was given a self-loop together with an edge between two nodes
\* and did nothing
C3_Witness ==
  /\ outer.op = "collapseEdges"
  /\ \E e1 \in outer.given : \E e2 \in outer.given :
       /\ e1.source = e1.target
       /\ e2.source # e2.target
       /\ e1.source \in {e2.source, e2.target}
  /\ out = NoEdgeResult /\ cy = before


\* C12: collapseEdgesBetweenNodes takes every unordered pair of the n given
\* nodes and every node with itself exactly once, n(n-1)/2 + n pairs in all;
\* a pair joined by at least two edges has them replaced by one aggregate
\* edge, a pair with fewer keeps its edges, every other edge stays, and the
\* result is the union of what was collapsed.
C12_CollapseBetweenNodes ==
  outer.op = "collapseEdgesBetweenNodes"
    => LET n     == Len(outer.given)
           N     == ToSet(outer.given)
           Of(P) == {e \in before.edges : {e.source, e.target} = P}
           many  == {P \in {{a, b} : a \in N, b \in N} :
                       Cardinality(Of(P)) >= 2}
       IN  /\ Len(inp) = (n * (n - 1)) \div 2 + n
           /\ \A a \in N : \A b \in N :
                Cardinality({k \in 1..Len(inp) :
                               {inp[k][1], inp[k][2]} = {a, b}}) = 1
           /\ \A P \in many :
                /\ Of(P) \cap cy.edges = {}
                /\ Cardinality({g \in cy.edges : g.collapsedEdges = Of(P)}) = 1
           /\ \A e \in before.edges :
                (\A P \in many : e \notin Of(P)) => e \in cy.edges
           /\ out.oldEdges = UNION {Of(P) : P \in many}
           /\ out.edges = {g \in cy.edges :
                             \E P \in many : g.collapsedEdges = Of(P)}
           /\ cy.edges = (before.edges \ out.oldEdges) \cup out.edges

\* three nodes were given; the edges between two of them and the self-loops
\* of one were collapsed, and an edge that had a pair to itself stayed
C12_Witness ==
  /\ outer.op = "collapseEdgesBetweenNodes"
  /\ Len(outer.given) = 3
  /\ Cardinality(out.edges) = 2
  /\ \E g \in out.edges : g.source = g.target
  /\ \E e \in before.edges \cap cy.edges :
       {e.source, e.target} \subseteq ToSet(outer.given)

\* C13: expandEdgesBetweenNodes hands to expandEdges exactly the aggregate
\* edges that join two of the given nodes or loop at one of them, never a
\* simple edge, and expandEdges leaves an edge that is no aggregate as it was.
C13_ExpandBetweenNodesOnlyAggregates ==
  outer.op = "expandEdgesBetweenNodes"
    => LET N == ToSet(outer.given)
       IN  /\ inp = {e \in before.edges :
                       /\ CollapsedEdgeClass \in e.classes
                       /\ {e.source, e.target} \subseteq N}
           /\ \A e \in inp : e.collapsedEdges # {}
           /\ \A e \in before.edges : e.collapsedEdges = {} => e \in cy.edges

-----------------------------------------------------------------------------
(* The cluster methods, together with collapse and expand *)

\* graphs with a cluster C that holds the leaf x or a container of it
InitClusterGraphs ==
  {g \in InitGraphs : g.type["C"] = "cluster" /\ Cardinality(g.edges) = 1}

InitCluster ==
  /\ cy \in InitClusterGraphs
  /\ options \in [dagre : BOOLEAN, positions : {<<>>}]
  /\ supportCys = 0
  /\ pc = "idle"
  /\ outer = NoCall
  /\ cur = NoCur
  /\ todo = <<>>
  /\ before = cy
  /\ rt = NoRt
  /\ raised = FALSE
  /\ inp = <<>>
  /\ out = 0
  /\ calls = 0

NextCluster ==
  \/ Collapse
  \/ Expand
  \/ UpdateCluster
  \/ CollapseCluster
  \/ ExpandCluster
  \/ ExpandClusterThrows
  \/ SupportEnd
  \/ EngineStep
  \/ NextCall
  \/ Finish
  \/ Return

SpecCluster == InitCluster /\ [][NextCluster]_vars

\* the kinds a node of the graph is of
NodeKinds(g, n) ==
  {k \in {"leaf", "container", "collapsedContainer"} :
     \/ k = "leaf" /\ ~isParent(g, n) /\ ~isExpandable(g, n)
     \/ k = "container" /\ isParent(g, n)
     \/ k = "collapsedContainer" /\ isExpandable(g, n)}

\* C5: in every state that collapse, expand, collapseCluster, expandCluster
\* and updateCluster reach, the states at their await points included, every
\* node is of exactly one kind (leaf, container, collapsed container) and a
\* node with the collapsed marker has no child in the graph.
C5_NodeKindInvariant ==
  \A n \in cy.nodes :
    /\ Cardinality(NodeKinds(cy, n)) = 1
    /\ isExpandable(cy, n) => Children(cy, n) = {}


\* the collapsed children of type default that the cluster holds
DefaultChildren(g, k) ==
  {m \in g.collapsedChildren[k].nodes : g.type[m] = "default"}

\* a cluster method has run to the end of its updateCluster
UpdateClusterDone == pc = "done" /\ IsClusterOp(outer.op) /\ ~raised

\* C21: when updateCluster has completed, the cluster is hidden (display
\* none) if and only if none of its collapsed children is of type default,
\* and is displayed otherwise; this holds for updateCluster itself and at the
\* end of every collapseCluster and expandCluster of a sequence.
C21_HiddenIffNoDefaultChild ==
  UpdateClusterDone =>
    /\ (cy.display[outer.cluster] = "none")
          <=> (DefaultChildren(cy, outer.cluster) = {})
    /\ (cy.display[outer.cluster] = "element")
          <=> (DefaultChildren(cy, outer.cluster) # {})

\* a hidden cluster has got a leaf by collapseCluster and is shown again
C21_Witness ==
  /\ UpdateClusterDone
  /\ outer.op = "collapseCluster"
  /\ before.display[outer.cluster] = "none"
  /\ cy.display[outer.cluster] = "element"
  /\ DefaultChildren(cy, outer.cluster) # {}

\* C22: after every updateCluster the childCount datum of the cluster is the
\* number of its collapsed children of type default, zero included.
C22_ChildCountIsDefaultCount ==
  UpdateClusterDone =>
    cy.childCount[outer.cluster]
      = Cardinality(DefaultChildren(cy, outer.cluster))

-----------------------------------------------------------------------------
(* The cluster methods with a priority list of colour classes: graphs of
   clusters only, whose leaves carry colour classes *)

\* the lists a caller passes as clusterColorClassesPriorities
PriorityLists == {<<"red", "green">>, <<"green", "red">>, <<"green">>}

InitColorGraphs ==
  {[g EXCEPT !.classes = [n \in NodeIds |->
                            IF n = "x" THEN cx ELSE IF n = "y" THEN cyy ELSE {}]] :
     g \in {h \in InitClusterGraphs : h.type["A"] = "cluster"},
     cx \in {{}, {"red"}}, cyy \in {{}, {"green"}}}

InitColor ==
  /\ cy \in InitColorGraphs
  /\ options = [dagre |-> FALSE, positions |-> <<>>]
  /\ supportCys = 0
  /\ pc = "idle"
  /\ outer = NoCall
  /\ cur = NoCur
  /\ todo = <<>>
  /\ before = cy
  /\ rt = NoRt
  /\ raised = FALSE
  /\ inp \in PriorityLists
  /\ out = 0
  /\ calls = 0

NextColor ==
  \/ UpdateCluster
  \/ CollapseCluster
  \/ ExpandCluster
  \/ ExpandClusterThrows
  \/ NextCall
  \/ Finish
  \/ Return

SpecColor == InitColor /\ [][NextColor]_vars

\* C23: when updateCluster leaves the cluster visible and the priority list
\* is not empty, the classes of the list that the cluster carries are exactly
\* the earliest class of the list that a collapsed child of type default
\* carries, or none when no such child carries a class of the list: no class
\* derived from children that have left the cluster remains.
C23_ColorClassOfCurrentChildren ==
  (UpdateClusterDone /\ cy.display[outer.cluster] = "element" /\ inp # <<>>) =>
    LET P       == {inp[i] : i \in DOMAIN inp}
        carried == UNION {cy.classes[n] : n \in DefaultChildren(cy, outer.cluster)}
        hits    == {i \in DOMAIN inp : inp[i] \in carried}
    IN  cy.classes[outer.cluster] \cap P =
          IF hits = {} THEN {}
          ELSE {inp[CHOOSE i \in hits : \A j \in hits : i <= j]}

-----------------------------------------------------------------------------
(* The cluster methods of the earlier revision of the API (edgeUtilities.js,
   lines 855-1576). Its collapseCluster is an ordinary function that calls
   updateCluster without awaiting or returning it; its expandCluster
   (lines 1398-1444) ends in the same call and is not modelled. The variable
   out holds what the caller of the method has got: "pending" while the
   promise it awaits is not settled, "undefined" once the method has handed
   back its result. *)

\* node.move({ parent: clusterId }), lines 1449-1452
MoveIntoEarlier(g, ids, clusterId) == MoveInto(g, ids, clusterId)

\* cy.remove(cluster), line 1391: the node, what is below it and the edges
\* that lose an end
removeNode(g, n) ==
  LET gone == {n} \cup Descendants(g, n)
  IN  [g EXCEPT !.nodes = @ \ gone,
                !.edges = {e \in @ : e.source \notin gone /\ e.target \notin gone}]

\* updateCluster after its expand and collapse, lines 1384-1395
updateClusterEndEarlier(g, cluster) ==
  LET count == IF g.collapsedChildren[cluster].has
               THEN defaultNodesCount(g, cluster) ELSE 0
      g1    == IF count = 0 THEN removeNode(g, cluster) ELSE g
  IN  [g1 EXCEPT !.childCount[cluster] = count]

\* api.collapse (lines 962-1031) and api.expand (lines 1048-1112) up to their
\* first await: with a group node in the graph the support instance is
\* created and, for expand always and for collapse if (supportNodes.length),
\* the layout of the pass is awaited; a collapse of nothing goes on to the
\* engine and leaves the instance undestroyed
BeginEarlier(kind, given, g) ==
  IF hasGroupNodes(g)
  THEN /\ supportCys' = supportCys + 1
       /\ IF kind = "expand" \/ collapsibleNodes(g, given) # {}
          THEN /\ cy' = g
               /\ pc' = "support"
               /\ cur' = [kind |-> kind, given |-> given,
                          eles |-> Filtered(kind, g, given), order |-> <<>>,
                          supportCy |-> g]
          ELSE /\ cy' = Engine(kind, g, {})
               /\ pc' = "next"
               /\ cur' = [kind |-> kind, given |-> given, eles |-> {},
                          order |-> <<>>, supportCy |-> g]
  ELSE /\ cy' = Engine(kind, g, Filtered(kind, g, given))
       /\ supportCys' = supportCys
       /\ pc' = "next"
       /\ cur' = [kind |-> kind, given |-> given,
                  eles |-> Filtered(kind, g, given),
                  order |-> EngineOrder(kind, g, Filtered(kind, g, given)),
                  supportCy |-> NoGraph]

\* the pass is over: supportCy.destroy(), the positions go to the scratch and
\* the engine is called (lines 1016-1030, 1098-1111)
SupportEndEarlier ==
  /\ pc = "support"
  /\ supportCys' = supportCys - 1
  /\ cy' = Engine(cur.kind, cy, Filtered(cur.kind, cy, cur.given))
  /\ cur' = [cur EXCEPT !.eles = Filtered(cur.kind, cy, cur.given),
                        !.order = EngineOrder(cur.kind, cy,
                                     Filtered(cur.kind, cy, cur.given)),
                        !.supportCy = NoGraph]
  /\ pc' = "next"
  /\ UNCHANGED <<options, outer, todo, before, rt, raised, inp, out, calls>>

\* await this.expand(cluster) has settled: await this.collapse(cluster)
NextCallEarlier ==
  /\ pc = "next"
  /\ todo # <<>>
  /\ BeginEarlier(Head(todo).kind, Head(todo).given, cy)
  /\ todo' = Tail(todo)
  /\ UNCHANGED <<options, outer, before, rt, raised, inp, out, calls>>

\* await this.collapse(cluster) has settled: the rest of updateCluster
FinishEarlier ==
  /\ pc = "next"
  /\ todo = <<>>
  /\ cy' = updateClusterEndEarlier(cy, outer.cluster)
  /\ pc' = "done"
  /\ UNCHANGED <<options, supportCys, outer, cur, todo, before, rt, raised,
                 inp, out, calls>>

\* the promise of updateCluster settles
ReturnEarlier ==
  /\ pc = "done"
  /\ pc' = "idle"
  /\ out' = "undefined"
  /\ cur' = NoCur
  /\ UNCHANGED <<cy, options, supportCys, outer, todo, before, rt, raised, inp,
                 calls>>

\* api.updateCluster, lines 1380-1396, called and awaited by the user
UpdateClusterEarlier ==
  /\ pc = "idle"
  /\ calls < MaxClusterCalls
  /\ \E k \in Clusters(cy) :
       /\ BeginEarlier("expand", {k}, cy)
       /\ outer' = [op |-> "updateCluster", given |-> {}, cluster |-> k]
  /\ todo' = <<[kind |-> "collapse", given |-> {outer'.cluster}]>>
  /\ out' = "pending"
  /\ before' = cy
  /\ calls' = calls + 1
  /\ UNCHANGED <<options, rt, raised, inp>>

\* api.collapseCluster, lines 1446-1455: the nodes are moved, updateCluster
\* is started and runs to its first await, and the function returns
CollapseClusterEarlier ==
  /\ pc = "idle"
  /\ calls < MaxClusterCalls
  /\ \E k \in Clusters(cy) :
       \E ids \in Selections(cy) :
         /\ ids # {} /\ ids \subseteq Leaves(cy)
         /\ BeginEarlier("expand", {k}, MoveIntoEarlier(cy, ids, k))
         /\ outer' = [op |-> "collapseCluster", given |-> ids, cluster |-> k]
  /\ todo' = <<[kind |-> "collapse", given |-> {outer'.cluster}]>>
  /\ out' = "undefined"
  /\ before' = cy
  /\ calls' = calls + 1
  /\ UNCHANGED <<options, rt, raised, inp>>

InitClusterEarlier ==
  /\ cy \in InitClusterGraphs
  /\ options = [dagre |-> FALSE, positions |-> <<>>]
  /\ supportCys = 0
  /\ pc = "idle"
  /\ outer = NoCall
  /\ cur = NoCur
  /\ todo = <<>>
  /\ before = cy
  /\ rt = NoRt
  /\ raised = FALSE
  /\ inp = 0
  /\ out = "undefined"
  /\ calls = 0

NextClusterEarlier ==
  \/ UpdateClusterEarlier
  \/ CollapseClusterEarlier
  \/ SupportEndEarlier
  \/ NextCallEarlier
  \/ FinishEarlier
  \/ ReturnEarlier

SpecClusterEarlier == InitClusterEarlier /\ [][NextClusterEarlier]_vars

\* C14: a convenience method starts a collapse or expand sub-call only after
\* the one before has settled, and hands its result to its caller only after
\* all its sub-calls have settled: while the caller has the result of
\* updateCluster or collapseCluster, no sub-call of the method is under way
\* or still to come.
C14_SettlesAfterSubCalls ==
  (outer.op \in {"updateCluster", "collapseCluster"} /\ out = "undefined")
    => (pc = "idle" /\ todo = <<>>)

-----------------------------------------------------------------------------
(* The level classifier *)

\* nodes of the graphs handed to getNodesByGroupLevels
MaxLevelNodes == 4

\* while (currentNode.data().parent !== undefined) { level++; ... }
RECURSIVE levelOf(_, _, _)
levelOf(g, currentNode, level) ==
  IF g.parent[currentNode] = NoParent THEN level
  ELSE levelOf(g, g.parent[currentNode], level + 1)

\* levelGroups[level][parentId].push(node), the groups of a level in the
\* order in which their first node arrived
pushToGroup(groups, parentId, node) ==
  IF \E i \in 1..Len(groups) : groups[i].parent = parentId
  THEN [i \in 1..Len(groups) |->
          IF groups[i].parent = parentId
          THEN [groups[i] EXCEPT !.nodes = Append(@, node)]
          ELSE groups[i]]
  ELSE Append(groups, [parent |-> parentId, nodes |-> <<node>>])

\* nodes.forEach, lines 186-219
RECURSIVE groupByLevel(_, _, _)
groupByLevel(g, nodes, levelGroups) ==
  IF nodes = <<>> THEN levelGroups
  ELSE LET node     == Head(nodes)
           parentId == g.parent[node]
           level    == IF parentId = NoParent THEN 1 ELSE levelOf(g, node, 1)
           key      == IF parentId = NoParent THEN "root" ELSE parentId
           groups   == IF level \in DOMAIN levelGroups
                       THEN levelGroups[level] ELSE <<>>
       IN  groupByLevel(g, Tail(nodes),
             [l \in DOMAIN levelGroups \cup {level} |->
                IF l = level THEN pushToGroup(groups, key, node)
                ELSE levelGroups[l]])

\* Object.keys of an object whose keys are integers: ascending
RECURSIVE objectKeys(_)
objectKeys(S) ==
  IF S = {} THEN <<>>
  ELSE LET m == CHOOSE x \in S : \A y \in S : x <= y
       IN  <<m>> \o objectKeys(S \ {m})

\* the keys left as Object.keys hands them over
sortLevelsAscending(keys) == SortSeq(keys, LAMBDA a, b : a < b)

\* .sort((a, b) => parseInt(b) - parseInt(a))
sortLevels(keys) == SortSeq(keys, LAMBDA a, b : a > b)

\* getNodesByGroupLevels, lines 179-231
getNodesByGroupLevels(g) ==
  LET levelGroups == groupByLevel(g, SeqOf(g.nodes), <<>>)
      levels      == sortLevels(objectKeys(DOMAIN levelGroups))
  IN  [i \in 1..Len(levels) |->
         [level |-> levels[i], items |-> levelGroups[levels[i]]]]

GetNodesByGroupLevels ==
  /\ outer = NoCall
  /\ out' = getNodesByGroupLevels(cy)
  /\ outer' = [op |-> "getNodesByGroupLevels", given |-> {}, cluster |-> "none"]
  /\ UNCHANGED <<cy, options, supportCys, pc, cur, todo, before, rt, raised, inp,
                 calls>>

LevelNodes == {NodeOrder[i] : i \in 1..MaxLevelNodes}

\* following the parents from n ends at a root within k steps
RECURSIVE EndsAtRoot(_, _, _)
EndsAtRoot(q, n, k) ==
  IF q[n] = NoParent THEN TRUE
  ELSE IF k = 0 THEN FALSE
  ELSE EndsAtRoot(q, q[n], k - 1)

\* every nesting of the node set N
Nestings(N) ==
  {q \in [NodeIds -> N \cup {NoParent}] :
     /\ \A n \in NodeIds \ N : q[n] = NoParent
     /\ \A n \in N : EndsAtRoot(q, n, Cardinality(N))}

\* every node set with every nesting of it
LevelGraphs ==
  UNION {{[NoGraph EXCEPT !.nodes = N, !.parent = q] : q \in Nestings(N)} :
           N \in SUBSET LevelNodes}

InitLevels ==
  /\ cy \in LevelGraphs
  /\ options = [dagre |-> TRUE]
  /\ supportCys = 0
  /\ pc = "idle"
  /\ outer = NoCall
  /\ cur = NoCur
  /\ todo = <<>>
  /\ before = cy
  /\ rt = NoRt
  /\ raised = FALSE
  /\ inp = 0
  /\ out = <<>>
  /\ calls = 0

NextLevels == GetNodesByGroupLevels

SpecLevels == InitLevels /\ [][NextLevels]_vars

\* nesting depth: a root node has depth 1, any other node one more than its
\* parent
Depth(g, n) == 1 + Cardinality(Ancestors(g, n))

\* the nodes a level holds
LevelMembers(lv) ==
  UNION {ToSet(lv.items[k].nodes) : k \in 1..Len(lv.items)}

\* C7: getNodesByGroupLevels returns one level for every nesting depth the
\* graph has, deepest first in strictly decreasing order, each holding the
\* nodes of its depth; a chain nested d deep gives exactly d levels.
C7_LevelsByDepth ==
  outer.op = "getNodesByGroupLevels"
    => LET depths == {Depth(cy, n) : n \in cy.nodes}
       IN  /\ Len(out) = Cardinality(depths)
           /\ {out[i].level : i \in 1..Len(out)} = depths
           /\ \A i \in 1..Len(out) : \A j \in 1..Len(out) :
                i < j => out[i].level > out[j].level
           /\ \A i \in 1..Len(out) :
                LevelMembers(out[i]) =
                  {n \in cy.nodes : Depth(cy, n) = out[i].level}
           /\ \A d \in depths : Len(out) >= d
           /\ \A d \in 1..Len(out) : d \in depths

\* the chain A > B > C > x: four levels, the deepest first
C7_Witness ==
  /\ outer.op = "getNodesByGroupLevels"
  /\ cy.nodes = {"A", "B", "C", "x"}
  /\ cy.parent["B"] = "A" /\ cy.parent["C"] = "B" /\ cy.parent["x"] = "C"
  /\ Len(out) = 4
  /\ out[1].level = 4 /\ out[4].level = 1

-----------------------------------------------------------------------------
(* The edge consolidator *)

\* edges of the graphs handed to repairEdges
MaxRepairEdges == 3

\* uniqueEdges[key], or <<>> when the object has no such key
lookupEdge(uniqueEdges, key) ==
  SelectSeq(uniqueEdges, LAMBDA u : u.key = key)

\* edges.forEach, lines 4-10: the object uniqueEdges as the sequence of its
\* entries, in the order they were put in
RECURSIVE collectUniqueEdges(_, _)
collectUniqueEdges(edges, uniqueEdges) ==
  IF edges = <<>> THEN uniqueEdges
  ELSE LET edge           == Head(edges)
           edgeId         == edge.source \o "_" \o edge.target
           reversedEdgeId == edge.target \o "_" \o edge.source
       IN  collectUniqueEdges(Tail(edges),
             IF /\ lookupEdge(uniqueEdges, edgeId) = <<>>
                /\ lookupEdge(uniqueEdges, reversedEdgeId) = <<>>
             THEN Append(uniqueEdges, [key |-> edgeId, edge |-> edge])
             ELSE uniqueEdges)

\* Object.values(uniqueEdges).forEach, lines 14-27: the edges in the graph
\* after the unique ones were added again; cy.add leaves out an element whose
\* id is in use
RECURSIVE addUniqueEdges(_, _)
addUniqueEdges(uniqueEdges, added) ==
  IF uniqueEdges = <<>> THEN added
  ELSE LET edge == Head(uniqueEdges).edge
           restoreEdge ==
             [edge EXCEPT !.id = EdgeId(edge.source, edge.label, edge.target)]
       IN  addUniqueEdges(Tail(uniqueEdges),
             IF /\ \A i \in 1..Len(added) : added[i].id # edge.id
                /\ \A i \in 1..Len(added) : added[i].id # restoreEdge.id
             THEN Append(added, restoreEdge)
             ELSE added)

\* repairEdges, lines 1-31: the graph afterwards (the removed edges go to the
\* scratch)
repairEdges(g) ==
  [g EXCEPT !.edges = addUniqueEdges(collectUniqueEdges(g.edges, <<>>), <<>>)]

\* restoreEdges that keeps the edges the graph has
restoreEdgesKeep(g, removedEdges) ==
  [g EXCEPT !.edges = g.edges \o removedEdges]

\* restoreEdges, lines 33-44
restoreEdges(g, removedEdges) ==
  [g EXCEPT !.edges = IF Len(removedEdges) # 0 THEN removedEdges ELSE <<>>]

\* no repairEdges has been followed by restoreEdges
NoRepairRt == [stage |-> "none", graph |-> NoGraph]

RepairEdges ==
  /\ cy' = repairEdges(cy)
  /\ options' = [options EXCEPT !.removedEdges = cy.edges]
  /\ outer' = [op |-> "repairEdges", given |-> {}, cluster |-> "none"]
  /\ before' = cy
  /\ rt' = [stage |-> "repaired", graph |-> cy]
  /\ UNCHANGED <<supportCys, pc, cur, todo, raised, inp, out, calls>>

RestoreEdges ==
  /\ cy' = restoreEdges(cy, options.removedEdges)
  /\ options' = [options EXCEPT !.removedEdges = <<>>]
  /\ outer' = [op |-> "restoreEdges", given |-> {}, cluster |-> "none"]
  /\ before' = cy
  /\ rt' = IF outer.op = "repairEdges"
           THEN [stage |-> "restored", graph |-> rt.graph]
           ELSE NoRepairRt
  /\ UNCHANGED <<supportCys, pc, cur, todo, raised, inp, out, calls>>

\* node ids, some with the character that also joins the keys
RepairNodeIds == {"a", "c", "a_b", "b_c"}

\* the endpoints an edge may have
RepairEnds ==
  {<<"a", "c">>, <<"c", "a">>, <<"a", "a">>, <<"a_b", "c">>,
   <<"a", "b_c">>, <<"c", "b_c">>}

RepairEdgeIds == <<"e1", "e2", "e3", "e4">>

\* the sequences of n edges, the i-th with the i-th id
RECURSIVE EdgeSeqs(_)
EdgeSeqs(n) ==
  IF n = 0 THEN {<<>>}
  ELSE {Append(q, [Edge(RepairEdgeIds[n], st[1], l, st[2])
                     EXCEPT !.classes = IF l = "calls" THEN {"dashed"} ELSE {}]) :
          q \in EdgeSeqs(n - 1), st \in RepairEnds, l \in {"uses", "calls"}}

InitRepair ==
  /\ \E n \in 0..MaxRepairEdges : \E q \in EdgeSeqs(n) :
       cy = [nodes |-> RepairNodeIds, edges |-> q]
  /\ options = [dagre |-> TRUE, removedEdges |-> <<>>]
  /\ supportCys = 0
  /\ pc = "idle"
  /\ outer = NoCall
  /\ cur = NoCur
  /\ todo = <<>>
  /\ before = cy
  /\ rt = NoRepairRt
  /\ raised = FALSE
  /\ inp = 0
  /\ out = 0
  /\ calls = 0

NextRepair ==
  \/ RepairEdges
  \/ RestoreEdges

SpecRepair == InitRepair /\ [][NextRepair]_vars

\* the positions in the edge sequence q of the edges between a and b
Between(q, a, b) ==
  {i \in 1..Len(q) : {q[i].source, q[i].target} = {a, b}}

\* C8: after repairEdges, every unordered pair of nodes (a node with itself
\* included) that had an edge has exactly one, with the source, target, label
\* and classes of the first edge the pair had, and every other pair has none.
C8_OneEdgePerPair ==
  outer.op = "repairEdges"
    => \A a \in RepairNodeIds : \A b \in RepairNodeIds :
         LET had == Between(before.edges, a, b)
             now == Between(cy.edges, a, b)
         IN  IF had = {} THEN now = {}
             ELSE /\ Cardinality(now) = 1
                  /\ LET first == before.edges[CHOOSE i \in had :
                                                 \A j \in had : i <= j]
                         kept  == cy.edges[CHOOSE i \in now : TRUE]
                     IN  /\ kept.source = first.source
                         /\ kept.target = first.target
                         /\ kept.label = first.label
                         /\ kept.classes = first.classes


\* C20: repairEdges directly followed by restoreEdges leaves the graph with
\* exactly the edges it had before repairEdges (ids, sources, targets, labels),
\* with none of the edges that consolidation added, and with an empty store
\* of removed edges.
C20_RepairRestoreRoundTrip ==
  rt.stage = "restored"
    => /\ cy.edges = rt.graph.edges
       /\ \A i \in 1..Len(cy.edges) :
            \E k \in 1..Len(rt.graph.edges) :
              /\ cy.edges[i].id = rt.graph.edges[k].id
              /\ cy.edges[i].source = rt.graph.edges[k].source
              /\ cy.edges[i].target = rt.graph.edges[k].target
              /\ cy.edges[i].label = rt.graph.edges[k].label
       /\ \A i \in 1..Len(before.edges) :
            (\A k \in 1..Len(rt.graph.edges) :
               before.edges[i].id # rt.graph.edges[k].id)
              => \A k \in 1..Len(cy.edges) : cy.edges[k].id # before.edges[i].id
       /\ options.removedEdges = <<>>

\* consolidation had replaced three edges by fewer edges under new ids, and
\* the three are back
C20_Witness ==
  /\ rt.stage = "restored"
  /\ Len(rt.graph.edges) = 3
  /\ Len(before.edges) \in 1..2
  /\ \A i \in 1..Len(before.edges) :
       \A k \in 1..Len(rt.graph.edges) :
         before.edges[i].id # rt.graph.edges[k].id
  /\ Len(cy.edges) = 3

\* C27: restoreEdges called while no snapshot of consolidated edges is
\* stored (repairEdges has not run, or restoreEdges has run since) leaves the
\* edges of the graph as they are; so repairEdges followed by two restoreEdges
\* ends with the edges the graph had at first.
C27_RestoreWithoutSnapshotKeepsEdges ==
  (outer.op = "restoreEdges" /\ rt.stage = "none")
    => cy.edges = before.edges

-----------------------------------------------------------------------------
(* The node mover *)

\* nonParents.positions(...): every node of nodes is moved by positionDiff
translate(position, nodes, positionDiff) ==
  [n \in DOMAIN position |->
     IF n \in nodes
     THEN [x |-> position[n].x + positionDiff.x,
           y |-> position[n].y + positionDiff.y]
     ELSE position[n]]

\* moveNodes, lines 11-28: the non-parents among the topmost nodes are moved,
\* then the children of every topmost node, for which the topmost nodes are
\* not worked out again
RECURSIVE moveNodes(_, _, _, _)
RECURSIVE moveNodesEach(_, _, _)
moveNodes(g, positionDiff, nodes, notCalcTopMostNodes) ==
  LET topMostNodes == IF notCalcTopMostNodes THEN nodes
                      ELSE getTopMostNodes(g, nodes)
      nonParents   == {n \in topMostNodes : ~isParent(g, n)}
      moved        == [g EXCEPT !.position =
                         translate(@, nonParents, positionDiff)]
  IN  moveNodesEach(moved, positionDiff, SeqOf(topMostNodes))
moveNodesEach(g, positionDiff, topMostNodes) ==
  IF topMostNodes = <<>> THEN g
  ELSE moveNodesEach(
         moveNodes(g, positionDiff, Children(g, Head(topMostNodes)), TRUE),
         positionDiff, Tail(topMostNodes))

PositionDiffs == {[x |-> 1, y |-> 0], [x |-> -2, y |-> 3]}

MoveNodes ==
  /\ outer = NoCall
  /\ \E S \in SUBSET cy.nodes : \E positionDiff \in PositionDiffs :
       /\ cy' = moveNodes(cy, positionDiff, S, FALSE)
       /\ outer' = [op |-> "moveNodes", given |-> S, cluster |-> "none"]
       /\ inp' = positionDiff
  /\ before' = cy
  /\ UNCHANGED <<options, supportCys, pc, cur, todo, rt, raised, out, calls>>

\* where the nodes are before the move
Position0 ==
  [n \in NodeIds |->
     [x |-> 10 * (CHOOSE i \in 1..Len(NodeOrder) : NodeOrder[i] = n), y |-> 0]]

MoveGraphs ==
  {[nodes |-> g.nodes, parent |-> g.parent, position |-> Position0] :
     g \in LevelGraphs}

InitMove ==
  /\ cy \in MoveGraphs
  /\ options = [dagre |-> TRUE]
  /\ supportCys = 0
  /\ pc = "idle"
  /\ outer = NoCall
  /\ cur = NoCur
  /\ todo = <<>>
  /\ before = cy
  /\ rt = NoRt
  /\ raised = FALSE
  /\ inp = [x |-> 0, y |-> 0]
  /\ out = 0
  /\ calls = 0

NextMove == MoveNodes

SpecMove == InitMove /\ [][NextMove]_vars

\* C9: moveNodes(delta, S) moves every node without children that is in S or
\* below a node of S by delta once, never twice, also when S holds a node
\* together with one of its ancestors; a node that is neither in S nor below
\* a node of S stays where it is.
C9_MovedExactlyOnce ==
  outer.op = "moveNodes"
    => \A n \in cy.nodes :
         LET covered == n \in outer.given \cup DescendantsOf(before, outer.given)
         IN  /\ (covered /\ ~isParent(before, n))
                  => /\ cy.position[n].x = before.position[n].x + inp.x
                     /\ cy.position[n].y = before.position[n].y + inp.y
             /\ ~covered => cy.position[n] = before.position[n]

\* S held the leaf x, its parent and its grandparent, and a leaf outside S
\* stayed
C9_Witness ==
  /\ outer.op = "moveNodes"
  /\ \E n \in outer.given :
       /\ ~isParent(before, n)
       /\ before.parent[n] \in outer.given
       /\ before.parent[before.parent[n]] \in outer.given
       /\ cy.position[n].x = before.position[n].x + inp.x
       /\ inp.x # 0
  /\ \E m \in cy.nodes \ outer.given :
       ~isParent(before, m) /\ Ancestors(before, m) \cap outer.given = {}

-----------------------------------------------------------------------------
(* The overlap reconciler (resolveCompoundNodesOverlap) on a support
   instance. In this part cy is the support instance: its nodes have a
   position and, when they have no children, a size; the box of a node with
   children is the hull of the boxes of its children and its position is the
   centre of that box (rounded down, positions being integers here). inp
   holds nodesByGroupLevels, cur the sibling group whose layout is awaited,
   todo the layouts that have been started and have not stopped, calls the
   number of layouts started, rt what the last finished group looked like
   before and after. *)

\* `support ${node.data().id}`
PlaceholderId(id) == "support " \o id

OverlapIds == NodeIds \cup {PlaceholderId(n) : n \in NodeIds}

Least(S) == CHOOSE a \in S : \A b \in S : a <= b
Greatest(S) == CHOOSE a \in S : \A b \in S : a >= b

\* the sides of the bounding box of a node
RECURSIVE boxOf(_, _)
boxOf(g, n) ==
  IF isParent(g, n)
  THEN LET bs == {boxOf(g, m) : m \in Children(g, n)}
       IN  [x1 |-> Least({b.x1 : b \in bs}), x2 |-> Greatest({b.x2 : b \in bs}),
            y1 |-> Least({b.y1 : b \in bs}), y2 |-> Greatest({b.y2 : b \in bs})]
  ELSE LET x1 == g.position[n].x - (g.size[n].w \div 2)
           y1 == g.position[n].y - (g.size[n].h \div 2)
       IN  [x1 |-> x1, x2 |-> x1 + g.size[n].w,
            y1 |-> y1, y2 |-> y1 + g.size[n].h]

\* node.boundingBox().w and .h
boundingBox(g, n) ==
  [w |-> boxOf(g, n).x2 - boxOf(g, n).x1, h |-> boxOf(g, n).y2 - boxOf(g, n).y1]

\* node.position()
positionOf(g, n) ==
  IF isParent(g, n)
  THEN [x |-> (boxOf(g, n).x1 + boxOf(g, n).x2) \div 2,
        y |-> (boxOf(g, n).y1 + boxOf(g, n).y2) \div 2]
  ELSE g.position[n]

\* node.data("type") === "group" && node.isParent()
isExpandedGroup(g, n) == g.type[n] = "group" /\ isParent(g, n)

\* getInnerMostChildNodes, lines 277-292
RECURSIVE getInnerMostChildNodes(_, _)
getInnerMostChildNodes(g, id) ==
  UNION {IF isExpandedGroup(g, childNode)
         THEN getInnerMostChildNodes(g, childNode)
         ELSE {childNode} : childNode \in Children(g, id)}

\* getEdgeOutermostId, lines 259-268; the parent of a node without parent
\* and a parentId that is not given are both undefined
RECURSIVE getEdgeOutermostId(_, _, _)
getEdgeOutermostId(g, id, parentId) ==
  IF g.parent[id] = parentId THEN id
  ELSE IF g.parent[id] = NoParent THEN NoParent
  ELSE getEdgeOutermostId(g, g.parent[id], parentId)

\* getEdgeIdWithPrefix, lines 242-249
getEdgeIdWithPrefix(g, id, parentId) ==
  LET edgeId == getEdgeOutermostId(g, id, parentId)
  IN  IF edgeId # NoParent /\ isExpandedGroup(g, edgeId)
      THEN PlaceholderId(edgeId) ELSE edgeId

\* lines 319-357: what one edge of a child of the expanded group node adds
\* to the map, keyed by id (an id fixes source, label and target, so the map
\* is the set of its values)
supportEdgeOf(g, node, childNodeIds, edge) ==
  LET parentId       == g.parent[node]
      isOutboundEdge == edge.source \in childNodeIds /\ edge.target \notin childNodeIds
      isInboundEdge  == edge.target \in childNodeIds /\ edge.source \notin childNodeIds
      other          == getEdgeIdWithPrefix(
                          g, IF isOutboundEdge THEN edge.target ELSE edge.source,
                          parentId)
  IN  IF (~isInboundEdge /\ ~isOutboundEdge) \/ other = NoParent THEN {}
      ELSE IF isOutboundEdge
      THEN {Edge(EdgeId(PlaceholderId(node), edge.label, other),
                 PlaceholderId(node), edge.label, other)}
      ELSE {Edge(EdgeId(other, edge.label, PlaceholderId(node)),
                 other, edge.label, PlaceholderId(node))}

\* the edges synthesized for one expanded group, lines 309-358
supportEdgesOfGroup(g, node) ==
  LET childNodeIds == getInnerMostChildNodes(g, node)
      childEdges   == {e \in g.edges :
                         e.source \in childNodeIds \/ e.target \in childNodeIds}
  IN  UNION {supportEdgeOf(g, node, childNodeIds, e) : e \in childEdges}

\* getSupportExpandedGroupsEdges, lines 301-361
getSupportExpandedGroupsEdges(g, groupLevelNodes) ==
  UNION {supportEdgesOfGroup(g, groupLevelNodes[k]) :
           k \in {i \in 1..Len(groupLevelNodes) :
                    isExpandedGroup(g, groupLevelNodes[i])}}

NoGroup ==
  [i |-> 0, j |-> 0, removedNodes |-> {}, removedEdges |-> {},
   placeholders |-> {}, eles |-> <<>>, synth |-> {}, awaited |-> 0]

\* groupLevelNodesOfAGroup.map, lines 435-476: every expanded group of the
\* sibling group gets a placeholder with its parent, box and position and is
\* removed with what is below it and the edges that lose an end
RECURSIVE substituteEach(_, _, _)
substituteEach(g, nodes, acc) ==
  IF nodes = <<>> THEN [g |-> g, acc |-> acc]
  ELSE LET node == Head(nodes)
           ph   == PlaceholderId(node)
           g1   == [g EXCEPT !.nodes = @ \cup {ph},
                             !.parent[ph] = g.parent[node],
                             !.type[ph] = "positioning-support",
                             !.size[ph] = boundingBox(g, node),
                             !.position[ph] = positionOf(g, node)]
           gone == {node} \cup Descendants(g1, node)
           goneEdges == {e \in g1.edges : e.source \in gone \/ e.target \in gone}
           g2   == [g1 EXCEPT !.nodes = @ \ gone, !.edges = @ \ goneEdges]
       IN  IF isExpandedGroup(g, node)
           THEN substituteEach(g2, Tail(nodes),
                  [acc EXCEPT !.removedNodes = @ \cup gone,
                              !.removedEdges = @ \cup goneEdges,
                              !.placeholders = @ \cup {ph},
                              !.eles = Append(@, ph)])
           ELSE substituteEach(g, Tail(nodes),
                  [acc EXCEPT !.eles = Append(@, node)])

\* supportCy.add of the synthesized edges, lines 491-504: an edge whose id is
\* taken or whose source or target is not in the graph is not added
addSupportEdges(g, synth) ==
  [g EXCEPT !.edges =
     @ \cup {e \in synth : /\ e.source \in g.nodes /\ e.target \in g.nodes
                           /\ \A f \in g.edges : f.id # e.id}]

\* lines 425-504 for one sibling group: the synthesized edges are worked out
\* first, then the placeholders take the place of the expanded groups
substituteGroup(g, groupLevelNodes) ==
  LET synth == getSupportExpandedGroupsEdges(g, groupLevelNodes)
      r     == substituteEach(g, groupLevelNodes, NoGroup)
  IN  [g |-> addSupportEdges(r.g, synth),
       acc |-> [r.acc EXCEPT !.synth = synth]]

\* a layout that is started and not waited for
runLayoutNoWait(layout) == [started |-> layout, resumes |-> "now"]

\* runLayoutAsync, lines 10-15: the layout is run and the caller goes on when
\* it has emitted layoutstop
runLayoutAsync(layout) == [started |-> layout, resumes |-> "layoutstop"]

\* moveCompoundNode that moves by the size of the difference, to the right
\* and downwards only
moveCompoundNodeUnsigned(g, node, oldPosition, newPosition) ==
  LET positionDiff ==
        [x |-> IF oldPosition.x < newPosition.x
               THEN newPosition.x - oldPosition.x
               ELSE oldPosition.x - newPosition.x,
         y |-> IF oldPosition.y < newPosition.y
               THEN newPosition.y - oldPosition.y
               ELSE oldPosition.y - newPosition.y]
  IN  moveNodes(g, positionDiff, Children(g, node), FALSE)

\* moveCompoundNode that leaves the nodes where they are
moveCompoundNodeNowhere(g, node, oldPosition, newPosition) == g

\* moveCompoundNode, lines 301-320
moveCompoundNode(g, node, oldPosition, newPosition) ==
  LET positionDiff ==
        [x |-> IF oldPosition.x < newPosition.x
               THEN newPosition.x - oldPosition.x
               ELSE (oldPosition.x - newPosition.x) * (-1),
         y |-> IF oldPosition.y < newPosition.y
               THEN newPosition.y - oldPosition.y
               ELSE (oldPosition.y - newPosition.y) * (-1)]
  IN  moveNodes(g, positionDiff, Children(g, node), FALSE)

\* removedCollection.forEach, lines 523-536
RECURSIVE moveRestored(_, _)
moveRestored(g, removed) ==
  IF removed = <<>> THEN g
  ELSE LET removedNode == Head(removed)
           ph          == PlaceholderId(removedNode)
       IN  moveRestored(
             IF isExpandedGroup(g, removedNode) /\ ph \in g.nodes
             THEN moveCompoundNode(g, removedNode, positionOf(g, removedNode),
                                   g.position[ph])
             ELSE g,
             Tail(removed))

\* a restore that brings back the nodes only
restoreRemovedNodes(g, group) ==
  [g EXCEPT !.nodes = @ \cup group.removedNodes]

\* removedCollection.restore(), line 520: the nodes, then the edges whose
\* ends are in the graph
restoreRemoved(g, group) ==
  LET nodes == g.nodes \cup group.removedNodes
  IN  [g EXCEPT !.nodes = nodes,
                !.edges = @ \cup {e \in group.removedEdges :
                                    e.source \in nodes /\ e.target \in nodes}]

\* positioningSupportCollection.remove(), line 538
removePlaceholders(g, group) ==
  [g EXCEPT !.nodes = @ \ group.placeholders,
            !.edges = {e \in @ : /\ e.source \notin group.placeholders
                                 /\ e.target \notin group.placeholders}]

\* lines 519-538: what follows the layout of a sibling group
finishGroup(g, group) ==
  removePlaceholders(
    moveRestored(restoreRemoved(g, group), SeqOf(group.removedNodes)),
    group)

\* the layouts of this model put the boxes of the nodes they are given one
\* after the other, in a row or in a column, this far apart
LayoutGap == 1

\* what a layout may choose
LayoutChoices ==
  {[dir |-> "row", origin |-> 0], [dir |-> "column", origin |-> 3]}

\* a layout sets the position of a node; a node with children is moved with
\* all that is below it
setPosition(g, n, p) ==
  IF isParent(g, n)
  THEN [g EXCEPT !.position =
          translate(@, {d \in Descendants(g, n) : ~isParent(g, d)},
                    [x |-> p.x - positionOf(g, n).x,
                     y |-> p.y - positionOf(g, n).y])]
  ELSE [g EXCEPT !.position[n] = p]

\* the layout of eles under a choice: no two of the boxes overlap afterwards
RECURSIVE layoutPositions(_, _, _, _)
layoutPositions(g, eles, at, choice) ==
  IF eles = <<>> THEN g
  ELSE LET n == Head(eles)
           b == boundingBox(g, n)
           p == IF choice.dir = "row"
                THEN [x |-> at + (b.w \div 2), y |-> choice.origin]
                ELSE [x |-> choice.origin, y |-> at + (b.h \div 2)]
           step == IF choice.dir = "row" THEN b.w ELSE b.h
       IN  layoutPositions(setPosition(g, n, p), Tail(eles),
                           at + step + LayoutGap, choice)

NoOverlapRt == [start |-> NoGraph, laid |-> NoGraph, after |-> NoGraph,
                group |-> NoGroup]

\* lines 425-517 for the sibling group j of level i of graph g: substitution,
\* then the layout is started and awaited
StartGroup(g, nodesByGroupLevels, i, j) ==
  LET r == substituteGroup(g, nodesByGroupLevels[i].items[j].nodes)
      l == runLayoutAsync([id |-> calls + 1, eles |-> r.acc.eles])
  IN  /\ cy' = r.g
      /\ cur' = [i |-> i, j |-> j, removedNodes |-> r.acc.removedNodes,
                 removedEdges |-> r.acc.removedEdges,
                 placeholders |-> r.acc.placeholders, eles |-> r.acc.eles,
                 synth |-> r.acc.synth, awaited |-> l.started.id, start |-> g]
      /\ todo' = todo \cup {l.started}
      /\ calls' = calls + 1
      /\ pc' = IF l.resumes = "layoutstop" THEN "layout" ELSE "resume"

\* resolveCompoundNodesOverlap up to its first await, lines 413-517
ResolveStart ==
  /\ pc = "idle"
  /\ outer = NoCall
  /\ inp' = getNodesByGroupLevels(cy)
  /\ outer' = [op |-> "resolveCompoundNodesOverlap", given |-> {},
               cluster |-> "none"]
  /\ before' = cy
  /\ StartGroup(cy, getNodesByGroupLevels(cy), 1, 1)
  /\ UNCHANGED <<options, supportCys, rt, raised, out>>

\* a layout that runs sets the positions of its nodes and emits layoutstop
LayoutStop ==
  /\ \E l \in todo : \E choice \in LayoutChoices :
       /\ cy' = layoutPositions(cy, SelectSeq(l.eles, LAMBDA n : n \in cy.nodes),
                                0, choice)
       /\ todo' = todo \ {l}
       /\ pc' = IF pc = "layout" /\ cur.awaited = l.id THEN "resume" ELSE pc
  /\ UNCHANGED <<options, supportCys, outer, cur, before, rt, raised, inp, out,
                 calls>>

\* a pass that returns when its first sibling group is done
ResumeReturns ==
  /\ pc = "resume"
  /\ rt' = [start |-> cur.start, laid |-> cy, after |-> finishGroup(cy, cur),
            group |-> cur]
  /\ cy' = finishGroup(cy, cur)
  /\ cur' = NoGroup
  /\ pc' = "done"
  /\ UNCHANGED <<options, supportCys, outer, todo, before, raised, inp, out, calls>>

\* after the await, lines 519-538, and on to the next sibling group or level
\* up to the next await, or to the end
Resume ==
  /\ pc = "resume"
  /\ LET g1   == finishGroup(cy, cur)
         more == cur.j < Len(inp[cur.i].items)
         last == ~more /\ cur.i = Len(inp)
     IN  /\ rt' = [start |-> cur.start, laid |-> cy, after |-> g1,
                   group |-> cur]
         /\ IF last
            THEN /\ cy' = g1
                 /\ cur' = NoGroup
                 /\ pc' = "done"
                 /\ UNCHANGED <<todo, calls>>
            ELSE StartGroup(g1, inp, IF more THEN cur.i ELSE cur.i + 1,
                                     IF more THEN cur.j + 1 ELSE 1)
  /\ UNCHANGED <<options, supportCys, outer, before, raised, inp, out>>

\* the edges of the support instances the model starts from
OverlapEdgePool ==
  {Edge("x_uses_y", "x", "uses", "y"), Edge("y_calls_x", "y", "calls", "x"),
   Edge("B_uses_y", "B", "uses", "y")}

\* the support instances the model starts from: A, B and C are containers
\* (B and C possibly empty), x and y are leaves
OverlapGraphs ==
  {[nodes |-> NodeIds,
    parent |-> [n \in OverlapIds |-> IF n \in NodeIds THEN q[n] ELSE NoParent],
    type |-> [n \in OverlapIds |->
                IF n \in {"A", "B", "C"} THEN t[n] ELSE "default"],
    position |-> [n \in OverlapIds |-> [x |-> 0, y |-> 0]],
    size |-> [n \in OverlapIds |-> [w |-> 2, h |-> 2]],
    edges |-> es] :
     q \in {f \in [NodeIds -> NodeIds \cup {NoParent}] :
              /\ f["A"] = NoParent
              /\ f["B"] \in {NoParent, "A"}
              /\ f["C"] \in {NoParent, "A", "B"}
              /\ f["x"] \in {"A", "B", "C"}
              /\ f["y"] \in {NoParent, "A", "B", "C"}},
     t \in {f \in [{"A", "B", "C"} -> {"group", "cluster"}] : f["B"] = "group"},
     es \in {{Edge("x_uses_y", "x", "uses", "y")}, OverlapEdgePool}}

InitOverlap ==
  /\ cy \in OverlapGraphs
  /\ options = [dagre |-> FALSE]
  /\ supportCys = 1
  /\ pc = "idle"
  /\ outer = NoCall
  /\ cur = NoGroup
  /\ todo = {}
  /\ before = cy
  /\ rt = NoOverlapRt
  /\ raised = FALSE
  /\ inp = <<>>
  /\ out = 0
  /\ calls = 0

NextOverlap ==
  \/ ResolveStart
  \/ LayoutStop
  \/ Resume

SpecOverlap == InitOverlap /\ [][NextOverlap]_vars

\* supportEndOperation after `await resolveCompoundNodesOverlap(...)`,
\* lines 149-158: the positions are read and the instance is destroyed
SupportEndOperation ==
  /\ pc = "done"
  /\ out' = harvest(cy, 0)
  /\ supportCys' = supportCys - 1
  /\ pc' = "destroyed"
  /\ UNCHANGED <<cy, options, outer, cur, todo, before, rt, raised, inp, calls>>

\* the support instances the pass is followed on: groups only, one edge
PassGraphs ==
  {g \in OverlapGraphs :
     /\ \A n \in {"A", "B", "C"} : g.type[n] = "group"
     /\ Cardinality(g.edges) = 1}

InitPass ==
  /\ cy \in PassGraphs
  /\ options = [dagre |-> FALSE]
  /\ supportCys = 1
  /\ pc = "idle"
  /\ outer = NoCall
  /\ cur = NoGroup
  /\ todo = {}
  /\ before = cy
  /\ rt = NoOverlapRt
  /\ raised = FALSE
  /\ inp = <<>>
  /\ out = 0
  /\ calls = 0

NextPass ==
  \/ ResolveStart
  \/ LayoutStop
  \/ Resume
  \/ SupportEndOperation

\* the awaited layout emits layoutstop: the LayoutStop step that settles the
\* promise of runLayoutAsync the pass is waiting on
AwaitedLayoutStops ==
  /\ pc = "layout"
  /\ \E l \in todo : l.id = cur.awaited
  /\ pc' = "resume"

\* the continuation after a settled await is run: the Resume step
ContinuationRuns == pc = "resume" /\ pc' \in {"layout", "done"}

\* the caller's continuation is run: the SupportEndOperation step
CallerContinues == pc = "done" /\ pc' = "destroyed"

\* The pass with its caller, under the assumptions that the layout the pass
\* awaits emits layoutstop and that a continuation whose await has settled is
\* run.  The three conditions are the weak fairness of LayoutStop on the awaited
\* layout, of Resume and of SupportEndOperation, written on the control
\* position these steps change.
SpecPass ==
  /\ InitPass
  /\ [][NextPass]_vars
  /\ WF_pc(AwaitedLayoutStops)
  /\ WF_pc(ContinuationRuns)
  /\ WF_pc(CallerContinues)

\* two boxes overlap when they share more than a side
overlaps(a, b) == a.x1 < b.x2 /\ b.x1 < a.x2 /\ a.y1 < b.y2 /\ b.y1 < a.y2

\* C11: when resolveCompoundNodesOverlap has completed, and every layout has
\* put the boxes it was given clear of each other, no two nodes with the same
\* parent have overlapping bounding boxes.
C11_NoSiblingOverlap ==
  (pc = "done" /\ outer.op = "resolveCompoundNodesOverlap")
    => \A a \in cy.nodes : \A b \in cy.nodes :
         (a # b /\ cy.parent[a] = cy.parent[b])
           => ~overlaps(boxOf(cy, a), boxOf(cy, b))

\* the reconciler is through with a graph in which two expanded groups with
\* the same parent overlapped, and one of them holds a container with
\* children of its own
C11_Witness ==
  /\ pc = "done" /\ outer.op = "resolveCompoundNodesOverlap"
  /\ \E a \in cy.nodes : \E b \in cy.nodes :
       /\ a # b /\ cy.parent[a] = cy.parent[b]
       /\ isExpandedGroup(before, a) /\ isExpandedGroup(before, b)
       /\ overlaps(boxOf(before, a), boxOf(before, b))
       /\ \E c \in Children(cy, a) : isParent(cy, c)

\* C16: at most one layout is in flight; the layout for the next sibling
\* group or level is started only when the one before has emitted layoutstop,
\* and the removed containers are restored, the nodes moved and the
\* placeholders removed only when the layout of their group has stopped.
C16_OneLayoutInFlight ==
  /\ Cardinality(todo) <= 1
  /\ pc = "layout" => \E l \in todo : l.id = cur.awaited /\ l.id = calls
  /\ pc \in {"resume", "done"} => todo = {}

\* a second layout is in flight, after the group of the first one, which had
\* a placeholder, was restored
C16_Witness ==
  /\ pc = "layout"
  /\ calls >= 2
  /\ Cardinality(todo) = 1
  /\ rt.group.placeholders # {}
  /\ rt.after.nodes = NodeIds

\* C17: when resolveCompoundNodesOverlap returns, the graph holds no
\* placeholder and no edge at a placeholder, and its node ids, its parent
\* relation and its edges (ids and endpoints) are those at entry.
C17_PlaceholdersDiscarded ==
  (pc = "done" /\ outer.op = "resolveCompoundNodesOverlap")
    => /\ cy.nodes = before.nodes
       /\ cy.nodes \cap {PlaceholderId(n) : n \in NodeIds} = {}
       /\ \A n \in cy.nodes : cy.parent[n] = before.parent[n]
       /\ cy.edges = before.edges
       /\ \A e \in cy.edges : e.source \in NodeIds /\ e.target \in NodeIds

\* the last sibling group had a placeholder with synthesized edges, edges
\* were removed with the groups, and positions have changed
C17_Witness ==
  /\ pc = "done" /\ outer.op = "resolveCompoundNodesOverlap"
  /\ rt.group.placeholders # {}
  /\ rt.group.synth \cap rt.laid.edges # {}
  /\ rt.group.removedEdges # {}
  /\ cy.position # before.position

\* C18: for every expanded container that a placeholder stood for, after the
\* restoration every descendant without children is displaced by
\* delta = (final position of the placeholder) - (position of the container
\* before the layout), and the container is where the placeholder was.
C18_DisplacedByDelta ==
  rt.group.i # 0
    => \A G \in NodeIds :
         PlaceholderId(G) \in rt.group.placeholders
           => LET old   == positionOf(rt.start, G)
                  final == rt.laid.position[PlaceholderId(G)]
              IN  /\ \A d \in Descendants(rt.start, G) :
                       ~isParent(rt.start, d)
                         => /\ rt.after.position[d].x
                                 = rt.start.position[d].x + (final.x - old.x)
                            /\ rt.after.position[d].y
                                 = rt.start.position[d].y + (final.y - old.y)
                  /\ positionOf(rt.after, G) = final

\* a container with a leaf and a nested container below it was displaced in
\* both directions, to the left in one of them
C18_Witness ==
  /\ rt.group.i # 0
  /\ \E G \in NodeIds :
       /\ PlaceholderId(G) \in rt.group.placeholders
       /\ \E c \in Children(rt.start, G) : isParent(rt.start, c)
       /\ \E c \in Children(rt.start, G) : ~isParent(rt.start, c)
       /\ rt.laid.position[PlaceholderId(G)].x < positionOf(rt.start, G).x
       /\ rt.laid.position[PlaceholderId(G)].y > positionOf(rt.start, G).y
       /\ positionOf(rt.after, G) = rt.laid.position[PlaceholderId(G)]

\* the node among the siblings of G that o is or lies below, as it appears in
\* the layout of the siblings (the placeholder for an expanded group)
Representatives(g, G, o) ==
  {IF isExpandedGroup(g, r) THEN PlaceholderId(r) ELSE r :
     r \in {a \in {o} \cup Ancestors(g, o) : g.parent[a] = g.parent[G]}}

\* what the synthesized edges of the expanded group G should be: one per
\* (source, label, target) for the edges between a descendant of G without
\* children and a node outside G
ExpectedSupportEdges(g, G) ==
  LET inside == {G} \cup Descendants(g, G)
      inner  == {d \in Descendants(g, G) : ~isParent(g, d)}
  IN  UNION {
        IF e.source \in inner /\ e.target \notin inside
        THEN {[source |-> PlaceholderId(G), label |-> e.label, target |-> r] :
                r \in Representatives(g, G, e.target)}
        ELSE IF e.target \in inner /\ e.source \notin inside
        THEN {[source |-> r, label |-> e.label, target |-> PlaceholderId(G)] :
                r \in Representatives(g, G, e.source)}
        ELSE {} : e \in g.edges}

\* C19: the edges synthesized for the placeholders of a sibling group are
\* exactly those that stand for an edge between an innermost (childless)
\* descendant of an expanded container and a node outside that container,
\* between the placeholder and the representative of the outside node among
\* the siblings, one per (source, label, target), and none of them has the
\* same placeholder as source and as target.
C19_SupportEdgesOfPlaceholders ==
  cur.i # 0
    => LET g      == cur.start
           groups == {G \in NodeIds : PlaceholderId(G) \in cur.placeholders}
       IN  /\ {[source |-> e.source, label |-> e.label, target |-> e.target] :
                 e \in cur.synth}
                = UNION {ExpectedSupportEdges(g, G) : G \in groups}
           /\ \A e \in cur.synth : \A f \in cur.synth :
                (e.source = f.source /\ e.label = f.label /\ e.target = f.target)
                  => e = f
           /\ \A e \in cur.synth : e.source # e.target

-----------------------------------------------------------------------------
(* The separation pass of the dagre flow (adjustDagreLayoutWithSeparation)
   and the options of the layout solver (getLayoutOptions). In this part cy
   is the instance the pass works on, with positions and sizes as in the
   overlap reconciler; options holds tempOptions.customLayout,
   tempOptions.groupLayoutBy and the layoutBy the solver is given; out holds
   the rank direction and the separations the pass has used for each sibling
   group. Sizes and separations are even, so that the halves are whole. *)

\* getLayoutOptions, lines 25-58: what the solver is handed for a level
getLayoutOptions(layoutBy, groupLayoutBy, isAnyNodeGroup, groupLevel, customLayout) ==
  LET layoutOptions == IF isAnyNodeGroup THEN groupLayoutBy ELSE layoutBy
  IN  [rankDir |-> IF customLayout /\ groupLevel = 3 THEN "LR" ELSE "TB",
       nodeSep |-> IF customLayout /\ groupLevel = 3 THEN 10
                   ELSE layoutOptions.nodeSep,
       rankSep |-> IF customLayout /\ groupLevel = 3 THEN 10
                   ELSE layoutOptions.rankSep]

\* lines 588-596: the locals rankDir, nodeSep and rankSep for a sibling group
\* of level groupLevel; `rankDir === "TB" ? "LR" : "TB";` is an expression
\* without effect, so rankDir keeps the value it had
levelSettings(opts, groupLevel, locals) ==
  IF opts.customLayout /\ groupLevel = 3
  THEN [rankDir |-> locals.rankDir, nodeSep |-> 10, rankSep |-> 10]
  ELSE [rankDir |-> opts.groupLayoutBy.rankDir,
        nodeSep |-> opts.groupLayoutBy.nodeSep,
        rankSep |-> opts.groupLayoutBy.rankSep]

\* lines 565-569: the first loop assigns rankDir only
levelRankDir(opts, groupLevel, locals) ==
  IF opts.customLayout /\ groupLevel = 3
  THEN locals
  ELSE [locals EXCEPT !.rankDir = opts.groupLayoutBy.rankDir]

\* the sibling groups in the order of the two loops over i and j
RECURSIVE siblingGroups(_)
siblingGroups(nodesByGroupLevels) ==
  IF nodesByGroupLevels = <<>> THEN <<>>
  ELSE [j \in 1..Len(Head(nodesByGroupLevels).items) |->
          [level |-> Head(nodesByGroupLevels).level,
           nodes |-> Head(nodesByGroupLevels).items[j].nodes]]
         \o siblingGroups(Tail(nodesByGroupLevels))

\* the locals after each sibling group of a loop, from the locals before it
RECURSIVE localsOfLoop(_, _, _, _)
localsOfLoop(opts, groups, locals, second) ==
  IF groups = <<>> THEN <<>>
  ELSE LET l == IF second THEN levelSettings(opts, Head(groups).level, locals)
                ELSE levelRankDir(opts, Head(groups).level, locals)
       IN  <<l>> \o localsOfLoop(opts, Tail(groups), l, second)

\* node.width() and node.height(): of a node with children, what its children
\* take up
width(g, n) == IF isParent(g, n) THEN boundingBox(g, n).w ELSE g.size[n].w
height(g, n) == IF isParent(g, n) THEN boundingBox(g, n).h ELSE g.size[n].h

\* nodeDimension, lines 610-617 and 674-681: the extent across the ranks
nodeDimension(g, node, rankDir) ==
  IF g.type[node] # "group"
  THEN IF rankDir = "TB" THEN width(g, node) ELSE height(g, node)
  ELSE IF rankDir = "TB" THEN boundingBox(g, node).w ELSE boundingBox(g, node).h

\* lines 638-644 and 652-658: half the extent along the ranks
halfRankExtent(g, node, rankDir) ==
  (IF g.type[node] # "group"
   THEN IF rankDir = "TB" THEN height(g, node) ELSE width(g, node)
   ELSE IF rankDir = "TB" THEN boundingBox(g, node).h ELSE boundingBox(g, node).w)
    \div 2

\* rankDir === "TB" ? node.position("y") : node.position("x")
rankCoord(g, node, rankDir) ==
  IF rankDir = "TB" THEN positionOf(g, node).y ELSE positionOf(g, node).x

\* lines 571-580: the nodes of a sibling group by their rank coordinate, in
\* the order in which the coordinates turn up
RECURSIVE coordMapOf(_, _, _, _)
coordMapOf(g, nodes, rankDir, coordMap) ==
  IF nodes = <<>> THEN coordMap
  ELSE LET node  == Head(nodes)
           coord == rankCoord(g, node, rankDir)
       IN  coordMapOf(g, Tail(nodes), rankDir,
             IF \E k \in 1..Len(coordMap) : coordMap[k].coord = coord
             THEN [k \in 1..Len(coordMap) |->
                     IF coordMap[k].coord = coord
                     THEN [coordMap[k] EXCEPT !.nodes = Append(@, node)]
                     ELSE coordMap[k]]
             ELSE Append(coordMap, [coord |-> coord, nodes |-> <<node>>]))

\* Array.from(coordMap.entries()).sort((a, b) => a[0] - b[0])
sortedLevelsOf(coordMap) == SortSeq(coordMap, LAMBDA a, b : a.coord < b.coord)

\* currentLevelNodes.reduce, lines 609-619
RECURSIVE totalDimensionOf(_, _, _)
totalDimensionOf(g, nodes, rankDir) ==
  IF nodes = <<>> THEN 0
  ELSE nodeDimension(g, Head(nodes), rankDir)
         + totalDimensionOf(g, Tail(nodes), rankDir)

\* lines 673-701 with nothing left between the nodes
RECURSIVE placeNodesNoSeparation(_, _, _, _, _)
placeNodesNoSeparation(g, nodes, s, currentStartCoord, currentMainCoord) ==
  IF nodes = <<>> THEN g
  ELSE LET node == Head(nodes)
           dim  == nodeDimension(g, node, s.rankDir)
           newPosition ==
             IF s.rankDir = "TB"
             THEN [x |-> currentStartCoord + (dim \div 2), y |-> currentMainCoord]
             ELSE [x |-> currentMainCoord, y |-> currentStartCoord + (dim \div 2)]
           g1 == IF isExpandedGroup(g, node)
                 THEN moveCompoundNode(g, node, positionOf(g, node), newPosition)
                 ELSE setPosition(g, node, newPosition)
       IN  placeNodesNoSeparation(g1, Tail(nodes), s, currentStartCoord + dim,
                                  currentMainCoord)

\* currentLevelNodes.forEach, lines 673-701: the nodes of a rank one after
\* the other
RECURSIVE placeNodes(_, _, _, _, _)
placeNodes(g, nodes, s, currentStartCoord, currentMainCoord) ==
  IF nodes = <<>> THEN g
  ELSE LET node == Head(nodes)
           dim  == nodeDimension(g, node, s.rankDir)
           newPosition ==
             IF s.rankDir = "TB"
             THEN [x |-> currentStartCoord + (dim \div 2), y |-> currentMainCoord]
             ELSE [x |-> currentMainCoord, y |-> currentStartCoord + (dim \div 2)]
           g1 == IF isExpandedGroup(g, node)
                 THEN moveCompoundNode(g, node, positionOf(g, node), newPosition)
                 ELSE setPosition(g, node, newPosition)
       IN  placeNodes(g1, Tail(nodes), s, currentStartCoord + dim + s.nodeSep,
                      currentMainCoord)

\* Math.max(...nodes.map(...)), lines 635-660
maxHalfRankExtent(g, nodes, rankDir) ==
  Greatest({halfRankExtent(g, nodes[k], rankDir) : k \in 1..Len(nodes)})

\* sortedLevels.forEach, lines 605-702
RECURSIVE placeLevels(_, _, _, _)
placeLevels(g, sortedLevels, levelIndex, s) ==
  IF levelIndex > Len(sortedLevels) THEN g
  ELSE LET currentLevelNodes == sortedLevels[levelIndex].nodes
           totalDimension    == totalDimensionOf(g, currentLevelNodes, s.rankDir)
           totalSeparation   == (Len(currentLevelNodes) - 1) * s.nodeSep
           currentStartCoord == 0 - ((totalDimension + totalSeparation) \div 2)
           prevLevelNodes    == sortedLevels[levelIndex - 1].nodes
           currentMainCoord  ==
             IF levelIndex = 1 THEN sortedLevels[levelIndex].coord
             ELSE rankCoord(g, prevLevelNodes[1], s.rankDir)
                    + maxHalfRankExtent(g, prevLevelNodes, s.rankDir)
                    + s.rankSep
                    + maxHalfRankExtent(g, currentLevelNodes, s.rankDir)
       IN  placeLevels(
             placeNodes(g, currentLevelNodes, s, currentStartCoord,
                        currentMainCoord),
             sortedLevels, levelIndex + 1, s)

\* the second pair of loops, lines 584-704
RECURSIVE placeGroups(_, _, _, _)
placeGroups(g, levelMaps, settings, k) ==
  IF k > Len(levelMaps) THEN g
  ELSE placeGroups(placeLevels(g, sortedLevelsOf(levelMaps[k]), 1, settings[k]),
                   levelMaps, settings, k + 1)

\* the locals the two loops use, from the options of the scratch
firstLocals(opts, groups) ==
  localsOfLoop(opts, groups,
               [rankDir |-> opts.groupLayoutBy.rankDir,
                nodeSep |-> opts.groupLayoutBy.nodeSep,
                rankSep |-> opts.groupLayoutBy.rankSep], FALSE)

secondLocals(opts, groups) ==
  localsOfLoop(opts, groups,
               IF groups = <<>>
               THEN [rankDir |-> opts.groupLayoutBy.rankDir,
                     nodeSep |-> opts.groupLayoutBy.nodeSep,
                     rankSep |-> opts.groupLayoutBy.rankSep]
               ELSE firstLocals(opts, groups)[Len(groups)], TRUE)

\* the ranks of every sibling group, lines 558-582
levelMapsOf(g, opts) ==
  LET groups == siblingGroups(getNodesByGroupLevels(g))
  IN  [k \in 1..Len(groups) |->
         coordMapOf(g, groups[k].nodes, firstLocals(opts, groups)[k].rankDir, <<>>)]

\* adjustDagreLayoutWithSeparation, lines 543-705
adjustDagreLayoutWithSeparation(g, opts) ==
  placeGroups(g, levelMapsOf(g, opts),
              secondLocals(opts, siblingGroups(getNodesByGroupLevels(g))), 1)

AdjustDagreLayoutWithSeparation ==
  /\ outer = NoCall
  /\ cy' = adjustDagreLayoutWithSeparation(cy, options)
  /\ out' = secondLocals(options, siblingGroups(getNodesByGroupLevels(cy)))
  /\ outer' = [op |-> "adjustDagreLayoutWithSeparation", given |-> {},
               cluster |-> "none"]
  /\ UNCHANGED <<options, supportCys, pc, cur, todo, before, rt, raised, inp,
                 calls>>

\* where the solver has put the nodes without children: in one rank, in two
\* ranks, and in one column
AdjustPositions ==
  LET i(n) == CHOOSE k \in 1..Len(NodeOrder) : NodeOrder[k] = n
  IN  {[n \in NodeIds |-> [x |-> 10 * i(n), y |-> 0]],
       [n \in NodeIds |-> [x |-> 10 * i(n), y |-> 20 * (i(n) % 2)]],
       [n \in NodeIds |-> [x |-> 0, y |-> 10 * i(n)]]}

\* the sizes of the nodes without children
AdjustSizes ==
  [n \in NodeIds |->
     IF n = "x" THEN [w |-> 2, h |-> 4]
     ELSE IF n = "y" THEN [w |-> 4, h |-> 2] ELSE [w |-> 6, h |-> 6]]

\* the instances the pass is handed: A is a group at the root, B and C are
\* groups or clusters, with or without children, x and y are leaves
AdjustGraphs ==
  {[nodes |-> NodeIds, parent |-> q,
    type |-> [n \in NodeIds |-> IF n \in {"A", "B", "C"} THEN t[n] ELSE "default"],
    position |-> p, size |-> AdjustSizes, edges |-> {}] :
     q \in {f \in [NodeIds -> NodeIds \cup {NoParent}] :
              /\ f["A"] = NoParent
              /\ f["B"] \in {NoParent, "A"}
              /\ f["C"] \in {"A", "B"}
              /\ f["x"] \in {"B", "C"}
              /\ f["y"] \in {NoParent, "A", "B"}},
     t \in {f \in [{"A", "B", "C"} -> {"group", "cluster"}] :
              f["A"] = "group" /\ f["B"] = "group"},
     p \in AdjustPositions}

\* the separations of the options
Separations == {0, 2}

InitAdjust ==
  /\ cy \in AdjustGraphs
  /\ options \in [customLayout : BOOLEAN,
                  groupLayoutBy : [rankDir : {"TB", "LR"}, nodeSep : Separations,
                                   rankSep : {2}],
                  layoutBy : [nodeSep : {4}, rankSep : {4}]]
  /\ supportCys = 1
  /\ pc = "idle"
  /\ outer = NoCall
  /\ cur = NoCur
  /\ todo = <<>>
  /\ before = cy
  /\ rt = NoRt
  /\ raised = FALSE
  /\ inp = 0
  /\ out = <<>>
  /\ calls = 0

NextAdjust == AdjustDagreLayoutWithSeparation

SpecAdjust == InitAdjust /\ [][NextAdjust]_vars

-----------------------------------------------------------------------------
(* Claims about the separation pass, under SpecAdjust *)

AdjustDone == outer.op = "adjustDagreLayoutWithSeparation"

\* the sibling groups the pass has gone through and the ranks of each, as the
\* pass found them
AdjustGroups == siblingGroups(getNodesByGroupLevels(before))
RanksOf(k) == sortedLevelsOf(levelMapsOf(before, options)[k])

\* the sides of a node across the ranks
NearEdge(g, n, rankDir) == IF rankDir = "TB" THEN boxOf(g, n).x1 ELSE boxOf(g, n).y1
FarEdge(g, n, rankDir) == IF rankDir = "TB" THEN boxOf(g, n).x2 ELSE boxOf(g, n).y2

\* the extent of a member: of the bounding box for a group node, the size of
\* the node otherwise
Extent(g, n, rankDir) ==
  IF g.type[n] = "group" \/ isParent(g, n)
  THEN IF rankDir = "TB" THEN boundingBox(g, n).w ELSE boundingBox(g, n).h
  ELSE IF rankDir = "TB" THEN g.size[n].w ELSE g.size[n].h

RECURSIVE SumOfExtents(_, _, _)
SumOfExtents(g, members, rankDir) ==
  IF members = <<>> THEN 0
  ELSE Extent(g, Head(members), rankDir) + SumOfExtents(g, Tail(members), rankDir)

\* the members of a rank follow one another with nodeSep between them
Contiguous(members, s) ==
  /\ \A i \in 1..Len(members) :
       FarEdge(cy, members[i], s.rankDir)
         = NearEdge(cy, members[i], s.rankDir) + Extent(cy, members[i], s.rankDir)
  /\ \A i \in 1..(Len(members) - 1) :
       NearEdge(cy, members[i + 1], s.rankDir)
         = FarEdge(cy, members[i], s.rankDir) + s.nodeSep
  /\ \A i, j \in 1..Len(members) :
       i # j => ~overlaps(boxOf(cy, members[i]), boxOf(cy, members[j]))

\* the first member of a rank starts at -(extents + separations)/2
Centred(members, s) ==
  2 * NearEdge(cy, members[1], s.rankDir)
    = 0 - (SumOfExtents(cy, members, s.rankDir) + (Len(members) - 1) * s.nodeSep)

\* C24 as stated: after adjustDagreLayoutWithSeparation, in every sibling
\* group and every rank the first member's near edge is at
\* -(sum of the extents + (n-1)*nodeSep)/2, each next member's near edge is
\* the far edge of the member before plus nodeSep, and no two members of a
\* rank overlap.
C24_RanksCentredAndContiguous ==
  AdjustDone =>
    \A k \in 1..Len(AdjustGroups) : \A r \in 1..Len(RanksOf(k)) :
      /\ Contiguous(RanksOf(k)[r].nodes, out[k])
      /\ Centred(RanksOf(k)[r].nodes, out[k])

\* C24, corrected: after adjustDagreLayoutWithSeparation, in every sibling
\* group and every rank each next member's near edge is the far edge of the
\* member before plus nodeSep, with the bounding-box extent for group nodes
\* and the size of the node otherwise, and no two members of a rank overlap;
\* the first member's near edge is at -(sum of the extents + (n-1)*nodeSep)/2
\* in the sibling group of the root, which is placed last. The members of a
\* deeper group are placed so and then moved together with their container.
C24_RanksContiguous ==
  AdjustDone =>
    \A k \in 1..Len(AdjustGroups) : \A r \in 1..Len(RanksOf(k)) :
      /\ Contiguous(RanksOf(k)[r].nodes, out[k])
      /\ AdjustGroups[k].level = 1 => Centred(RanksOf(k)[r].nodes, out[k])

\* a rank of two members inside a group, one of them a group with children,
\* that has been moved with the group after it was placed, and a rank of two
\* members at the root
C24_Witness ==
  /\ AdjustDone
  /\ \E k \in 1..Len(AdjustGroups) : \E r \in 1..Len(RanksOf(k)) :
       /\ AdjustGroups[k].level > 1
       /\ Len(RanksOf(k)[r].nodes) >= 2
       /\ \E i \in 1..Len(RanksOf(k)[r].nodes) :
            isExpandedGroup(cy, RanksOf(k)[r].nodes[i])
       /\ out[k].nodeSep > 0
       /\ ~Centred(RanksOf(k)[r].nodes, out[k])
  /\ \E k \in 1..Len(AdjustGroups) : \E r \in 1..Len(RanksOf(k)) :
       /\ AdjustGroups[k].level = 1
       /\ Len(RanksOf(k)[r].nodes) >= 2

\* isAnyNodeGroup when the solver is called for sibling group k
\* (resolveCompoundNodesOverlap, lines 423-439): a node of type group has
\* turned up in the sibling groups of the level so far
isAnyNodeGroupAt(g, groups, k) ==
  \E j \in 1..k :
    /\ groups[j].level = groups[k].level
    /\ \E i \in 1..Len(groups[j].nodes) : g.type[groups[j].nodes[i]] = "group"

\* C28: for every hierarchy level, the rank direction and the node and rank
\* separation that adjustDagreLayoutWithSeparation uses for a sibling group of
\* the level are the ones getLayoutOptions hands to the layout solver for the
\* same level; with customLayout, level 3 is adjusted with direction LR and
\* separations 10.
C28_AdjustUsesSolverOptions ==
  AdjustDone =>
    \A k \in 1..Len(AdjustGroups) :
      /\ out[k] = getLayoutOptions(options.layoutBy, options.groupLayoutBy,
                                   isAnyNodeGroupAt(before, AdjustGroups, k),
                                   AdjustGroups[k].level, options.customLayout)
      /\ (options.customLayout /\ AdjustGroups[k].level = 3)
           => out[k] = [rankDir |-> "LR", nodeSep |-> 10, rankSep |-> 10]

-----------------------------------------------------------------------------
(* The consolidator of cluster edges (repairClusterEdges). In this part the
   id of an edge is the sequence of the parts that id.split("_") yields, the
   edges of the graph are a sequence in the order of cy.edges(), and options
   holds the scratch entry originalClusteredEdgeids. *)

\* edges of the graphs handed to repairClusterEdges
MaxClusterEdges == 3

\* cy.nodes() of these graphs, in order: two clusters and two leaves
ClusterRepairNodes == <<"K", "L", "x", "y">>

\* id[k] = v on the array id; an array that is too short grows, the places
\* in between are empty
setPart(id, k, v) ==
  [i \in 1..(IF k > Len(id) THEN k ELSE Len(id)) |->
     IF i = k THEN v ELSE IF i <= Len(id) THEN id[i] ELSE ""]

incidentTo(edge, clusterId) == edge.source = clusterId \/ edge.target = clusterId

\* cy.add of an edge: refused when an element has the id
addEdge(g, edge) ==
  IF \/ \E i \in 1..Len(g.edges) : g.edges[i].id = edge.id
     \/ \E n \in g.nodes : <<n>> = edge.id
  THEN g
  ELSE [g EXCEPT !.edges = Append(@, edge)]

\* lines 116-131: the data of the edge that is added again
restoreEdgeDataOf(finalEdge, clusterId) ==
  [finalEdge EXCEPT !.id =
     IF finalEdge.source = clusterId THEN setPart(@, 1, clusterId)
     ELSE IF finalEdge.target = clusterId THEN setPart(@, 3, clusterId)
     ELSE @]

\* lines 107-139 for one cluster: every incident edge is removed and the last
\* one removed is added again
repairClusterDefault(g, clusterId) ==
  LET incident == SelectSeq(g.edges, LAMBDA e : incidentTo(e, clusterId))
      g1       == [g EXCEPT !.edges =
                     SelectSeq(@, LAMBDA e : ~incidentTo(e, clusterId))]
  IN  IF incident = <<>> THEN g
      ELSE addEdge(g1, restoreEdgeDataOf(incident[Len(incident)], clusterId))

\* `${source}_${label}_${target}`, lines 63-65
clusterEdgeId(edge) == <<edge.source, edge.label, edge.target>>

\* uniqueClusterEdges[clusterEdgeId] = clusterEdge, lines 58-71: the object as
\* the sequence of its entries; a key that is there keeps its place and gets
\* the new edge
RECURSIVE collectClusterEdges(_, _)
collectClusterEdges(incident, uniqueClusterEdges) ==
  IF incident = <<>> THEN uniqueClusterEdges
  ELSE LET edge == Head(incident)
           key  == clusterEdgeId(edge)
       IN  collectClusterEdges(Tail(incident),
             IF \E i \in 1..Len(uniqueClusterEdges) : uniqueClusterEdges[i].key = key
             THEN [i \in 1..Len(uniqueClusterEdges) |->
                     IF uniqueClusterEdges[i].key = key
                     THEN [key |-> key, edge |-> edge]
                     ELSE uniqueClusterEdges[i]]
             ELSE Append(uniqueClusterEdges, [key |-> key, edge |-> edge]))

\* Object.values(uniqueClusterEdges).forEach, lines 78-100
RECURSIVE addRetainedEdges(_, _, _)
addRetainedEdges(g, uniqueClusterEdges, clusterId) ==
  IF uniqueClusterEdges = <<>> THEN g
  ELSE LET retainedEdge == Head(uniqueClusterEdges).edge
           restoreEdgeData ==
             [retainedEdge EXCEPT !.id =
                IF retainedEdge.source = clusterId THEN setPart(@, 1, clusterId)
                ELSE IF retainedEdge.target = clusterId
                     THEN setPart(@, Len(@), clusterId)
                     ELSE @]
       IN  addRetainedEdges(addEdge(g, restoreEdgeData),
                            Tail(uniqueClusterEdges), clusterId)

\* lines 52-101 for one cluster
repairClusterUnique(g, clusterId) ==
  LET incident == SelectSeq(g.edges, LAMBDA e : incidentTo(e, clusterId))
      g1       == [g EXCEPT !.edges =
                     SelectSeq(@, LAMBDA e : ~incidentTo(e, clusterId))]
  IN  addRetainedEdges(g1, collectClusterEdges(incident, <<>>), clusterId)

\* cy.nodes().forEach, lines 51 and 107
RECURSIVE repairClusterEach(_, _, _)
repairClusterEach(g, nodes, allowUniqueClusterEdges) ==
  IF nodes = <<>> THEN g
  ELSE repairClusterEach(
         IF g.type[Head(nodes)] = "cluster"
         THEN IF allowUniqueClusterEdges
              THEN repairClusterUnique(g, Head(nodes))
              ELSE repairClusterDefault(g, Head(nodes))
         ELSE g,
         Tail(nodes), allowUniqueClusterEdges)

\* repairClusterEdges, lines 45-143: the graph afterwards
repairClusterEdges(g, allowUniqueClusterEdges) ==
  repairClusterEach(g, ClusterRepairNodes, allowUniqueClusterEdges)

\* originalClusteredEdgeids after the call, lines 47-50, 73-76 and 104-105:
\* the ids of the edges a cluster had when it was first gone through
RECURSIVE clusteredEdgeIds(_, _, _)
clusteredEdgeIds(g, nodes, originalClusteredEdgeids) ==
  IF nodes = <<>> THEN originalClusteredEdgeids
  ELSE LET clusterId == Head(nodes)
           incident  == SelectSeq(g.edges, LAMBDA e : incidentTo(e, clusterId))
           ids       == {incident[i].id : i \in 1..Len(incident)}
       IN  IF g.type[clusterId] # "cluster"
           THEN clusteredEdgeIds(g, Tail(nodes), originalClusteredEdgeids)
           ELSE clusteredEdgeIds(
                  repairClusterUnique(g, clusterId), Tail(nodes),
                  IF clusterId \in DOMAIN originalClusteredEdgeids
                  THEN originalClusteredEdgeids
                  ELSE [c \in DOMAIN originalClusteredEdgeids \cup {clusterId} |->
                          IF c = clusterId THEN ids
                          ELSE originalClusteredEdgeids[c]])

RepairClusterEdges ==
  /\ outer = NoCall
  /\ \E allowUniqueClusterEdges \in BOOLEAN :
       /\ cy' = repairClusterEdges(cy, allowUniqueClusterEdges)
       /\ options' =
            IF allowUniqueClusterEdges
            THEN [options EXCEPT !.originalClusteredEdgeids =
                    clusteredEdgeIds(cy, ClusterRepairNodes, @)]
            ELSE options
       /\ inp' = allowUniqueClusterEdges
  /\ outer' = [op |-> "repairClusterEdges", given |-> {}, cluster |-> "none"]
  /\ UNCHANGED <<supportCys, pc, cur, todo, before, rt, raised, out, calls>>

\* the ends an edge may have: leaf and cluster, cluster and cluster, leaf and
\* leaf
ClusterRepairEnds ==
  {<<"x", "K">>, <<"y", "K">>, <<"K", "L">>, <<"L", "x">>, <<"x", "y">>}

\* the sequences of n edges with different ids: the id of an edge is either
\* source_label_target or a name of its own
RECURSIVE ClusterEdgeSeqs(_)
ClusterEdgeSeqs(n) ==
  IF n = 0 THEN {<<>>}
  ELSE {Append(q, Edge(id, st[1], l, st[2])) :
          q \in ClusterEdgeSeqs(n - 1), st \in ClusterRepairEnds,
          l \in {"uses", "calls"}, id \in {<<"own">>, <<"canonical">>}}

\* the id an edge of the sequence gets
WithIds(q) ==
  [i \in 1..Len(q) |->
     [q[i] EXCEPT !.id = IF @ = <<"own">> THEN <<RepairEdgeIds[i]>>
                         ELSE clusterEdgeId(q[i])]]

InitClusterRepair ==
  /\ \E n \in 0..MaxClusterEdges : \E q \in ClusterEdgeSeqs(n) :
       /\ \A i, j \in 1..n : i # j => WithIds(q)[i].id # WithIds(q)[j].id
       /\ cy = [nodes |-> {"K", "L", "x", "y"},
                type |-> [m \in {"K", "L", "x", "y"} |->
                            IF m \in {"K", "L"} THEN "cluster" ELSE "default"],
                edges |-> WithIds(q)]
  /\ options = [originalClusteredEdgeids |-> <<>>]
  /\ supportCys = 1
  /\ pc = "idle"
  /\ outer = NoCall
  /\ cur = NoCur
  /\ todo = <<>>
  /\ before = cy
  /\ rt = NoRt
  /\ raised = FALSE
  /\ inp = FALSE
  /\ out = 0
  /\ calls = 0

NextClusterRepair == RepairClusterEdges

SpecClusterRepair == InitClusterRepair /\ [][NextClusterRepair]_vars

\* the edges of a graph that have an end at the cluster
IncidentEdges(g, clusterId) ==
  {i \in 1..Len(g.edges) : incidentTo(g.edges[i], clusterId)}

\* C25: after repairClusterEdges, every cluster that had an incident edge
\* has, in the default mode, exactly one incident edge and, in the mode that
\* allows unique edges, exactly one incident edge for every label its incident
\* edges had; an edge with no end at a cluster is neither removed nor changed.
C25_OneEdgePerClusterOrLabel ==
  outer.op = "repairClusterEdges" =>
    /\ \A k \in {"K", "L"} :
         LET had == IncidentEdges(before, k)
             now == IncidentEdges(cy, k)
         IN  had # {} =>
               IF inp
               THEN /\ \A i \in had :
                         Cardinality({j \in now :
                                        cy.edges[j].label = before.edges[i].label}) = 1
                    /\ \A j \in now : \E i \in had :
                         cy.edges[j].label = before.edges[i].label
               ELSE Cardinality(now) = 1
    /\ \A i \in 1..Len(before.edges) :
         (~incidentTo(before.edges[i], "K") /\ ~incidentTo(before.edges[i], "L"))
           => \E j \in 1..Len(cy.edges) : cy.edges[j] = before.edges[i]

-----------------------------------------------------------------------------
(* Claims about the pass of the overlap reconciler as a whole, under SpecPass *)

\* the sibling groups of nodesByGroupLevels
RECURSIVE NumberOfGroups(_)
NumberOfGroups(nodesByGroupLevels) ==
  IF nodesByGroupLevels = <<>> THEN 0
  ELSE Len(Head(nodesByGroupLevels).items) + NumberOfGroups(Tail(nodesByGroupLevels))

\* C26: if every layout that is started emits layoutstop,
\* resolveCompoundNodesOverlap returns (and its caller destroys the support
\* instance), after exactly one layout for every sibling group of every level
\* and with none of them still running; as long as the layout the pass awaits
\* has not stopped, the pass stays where it is: it does not return, no other
\* group is laid out and the support instance is not destroyed.
C26_PassReturnsWhenLayoutsStop ==
  /\ (outer.op = "resolveCompoundNodesOverlap") ~> (pc = "destroyed" /\ supportCys = 0)
  /\ [](pc \in {"done", "destroyed"}
          => calls = NumberOfGroups(inp) /\ todo = {})
  /\ [][(pc = "layout" /\ \E l \in todo' : l.id = cur.awaited)
          => /\ pc' = "layout"
             /\ calls' = calls
             /\ supportCys' = supportCys
             /\ cur' = cur]_vars

\* a pass over three or more sibling groups has returned and the instance is
\* destroyed
C26_Witness ==
  /\ pc = "destroyed"
  /\ supportCys = 0
  /\ calls >= 3
  /\ calls = NumberOfGroups(inp)

-----------------------------------------------------------------------------
(* Options and the cue handlers: initialization, setOptions, extendOptions, *)
(* setOption, enableCue, disableCue.  An options object is a function from  *)
(* the keys it owns to their values; JavaScript values are written as       *)
(* strings.  The handlers are in rt: how many times they are registered,    *)
(* and the last two things done to them.                                    *)

\* most registrations of the handlers that are counted
MaxBindings == 3

OptionKeys == {"cueEnabled", "animate", "undoable"}

\* the values a caller gives to cueEnabled, and to the other options
CueValues == {"true", "false", "undefined", "1", "0"}
FlagValues == {"true", "false"}

\* JavaScript truthiness of these values
Truthy(v) == v \in {"true", "1"}

\* the options objects a caller hands in: any keys, each with a value
OptionObjects ==
  UNION {[K -> CueValues \cup FlagValues] : K \in SUBSET OptionKeys}

CallerOptions ==
  {o \in OptionObjects :
     \A k \in DOMAIN o : k # "cueEnabled" => o[k] \in FlagValues}

\* o[k], undefined for a key the object does not own
Get(o, k) == IF k \in DOMAIN o THEN o[k] ELSE "undefined"

\* o[k] = v
Put(o, k, v) == [x \in DOMAIN o \cup {k} |-> IF x = k THEN v ELSE o[x]]

\* extendOptions, lines 63-70: a copy of options in which the keys options
\* owns take the values extendBy has for them
extendOptions(opts, extendBy) ==
  [k \in DOMAIN opts |-> IF k \in DOMAIN extendBy THEN extendBy[k] ELSE opts[k]]

\* the defaults of the registration, lines 776-802
DefaultOptions == [k \in OptionKeys |-> "true"]

NoCue == [bound |-> 0, last |-> "none", prev |-> "none", twice |-> FALSE]

\* cueUtilities(options | "rebind", cy, api) registers the handlers,
\* cueUtilities("unbind", cy, api) removes them
cueUtilities(mode, c) ==
  IF mode = "unbind"
  THEN [bound |-> 0, last |-> "unbind", prev |-> c.last,
        twice |-> c.twice \/ c.last = "unbind"]
  ELSE [bound |-> IF c.bound < MaxBindings THEN c.bound + 1 ELSE c.bound,
        last |-> "bind", prev |-> c.last,
        twice |-> c.twice \/ c.last = "bind"]

\* enableCue that registers the handlers whatever the stored option says
enableCueAlways(st) ==
  [options |-> Put(st.options, "cueEnabled", "true"),
   cue     |-> cueUtilities("rebind", st.cue)]

\* api.disableCue, lines 488-494
disableCue(st) ==
  IF Truthy(Get(st.options, "cueEnabled"))
  THEN [options |-> Put(st.options, "cueEnabled", "false"),
        cue     |-> cueUtilities("unbind", st.cue)]
  ELSE st

\* api.enableCue, lines 496-502
enableCue(st) ==
  IF ~Truthy(Get(st.options, "cueEnabled"))
  THEN [options |-> Put(st.options, "cueEnabled", "true"),
        cue     |-> cueUtilities("rebind", st.cue)]
  ELSE st

\* handleNewOptions, lines 92-99
handleNewOptions(st, opts) ==
  IF Truthy(Get(opts, "cueEnabled")) /\ ~Truthy(Get(st.options, "cueEnabled"))
  THEN enableCue(st)
  ELSE IF ~Truthy(Get(opts, "cueEnabled")) /\ Truthy(Get(st.options, "cueEnabled"))
       THEN disableCue(st)
       ELSE st

\* api.setOptions, lines 100-103
setOptions(st, opts) == [handleNewOptions(st, opts) EXCEPT !.options = opts]

\* api.extendOptions, lines 105-110
apiExtendOptions(st, opts) ==
  setOptions(st, extendOptions(st.options, opts))

\* api.setOption, lines 113-122
setOption(st, name, value) ==
  setOptions(st, extendOptions(st.options, [k \in {name} |-> value]))

\* the registration with a real options object, lines 806-827: the handlers
\* are registered, and removed again if the cue is not enabled
initialize(opts) ==
  LET o == extendOptions(DefaultOptions, opts)
      c == cueUtilities("init", NoCue)
  IN  [options |-> o,
       cue     |-> IF ~Truthy(Get(o, "cueEnabled"))
                   THEN cueUtilities("unbind", c) ELSE c]

\* the stored options and the handlers
CueState == [options |-> options, cue |-> rt]

InitCue ==
  /\ \E opts \in CallerOptions :
       /\ options = initialize(opts).options
       /\ rt = initialize(opts).cue
  /\ cy = NoGraph
  /\ supportCys = 0
  /\ pc = "idle"
  /\ outer = [NoCall EXCEPT !.op = "expandCollapse"]
  /\ cur = NoCur
  /\ todo = <<>>
  /\ before = NoGraph
  /\ raised = FALSE
  /\ inp = 0
  /\ out = 0
  /\ calls = 0

\* a method of the API has run: the stored options and the handlers after it
CueCalled(op, st) ==
  /\ options' = st.options
  /\ rt' = st.cue
  /\ outer' = [NoCall EXCEPT !.op = op]
  /\ UNCHANGED <<cy, supportCys, pc, cur, todo, before, raised, inp, out, calls>>

SetOptions ==
  \E opts \in CallerOptions : CueCalled("setOptions", setOptions(CueState, opts))

ExtendOptions ==
  \E opts \in CallerOptions :
    CueCalled("extendOptions", apiExtendOptions(CueState, opts))

SetOption ==
  \E name \in OptionKeys :
    \E value \in (IF name = "cueEnabled" THEN CueValues ELSE FlagValues) :
      CueCalled("setOption", setOption(CueState, name, value))

EnableCue == CueCalled("enableCue", enableCue(CueState))

DisableCue == CueCalled("disableCue", disableCue(CueState))

NextCue ==
  \/ SetOptions
  \/ ExtendOptions
  \/ SetOption
  \/ EnableCue
  \/ DisableCue

SpecCue == InitCue /\ [][NextCue]_vars

\* C30: after the registration and any sequence of setOptions, extendOptions,
\* setOption, enableCue and disableCue the cue handlers are registered if and
\* only if the stored option cueEnabled is truthy, they are registered at
\* most once, and they were never registered twice in a row nor removed
\* twice in a row.
C30_CueBoundIffEnabled ==
  /\ rt.bound > 0 <=> Truthy(Get(options, "cueEnabled"))
  /\ rt.bound <= 1
  /\ ~rt.twice

\* setOption has registered the handlers again after they had been removed,
\* with a truthy value that is not true
C30_Witness ==
  /\ outer.op = "setOption"
  /\ rt.last = "bind" /\ rt.prev = "unbind" /\ rt.bound = 1
  /\ Get(options, "cueEnabled") = "1"

====
